---- MODULE Spec2Model ----
(***************************************************************************)
(* Model of the GitFlow release orchestration of zhengke-cli               *)
(* (packages/git): GitFlow.initRepository / initGit / commit / publish,    *)
(* with the VersionManager, BranchManager, RemoteManager, GitClient and    *)
(* the hosting-platform client they drive.                                 *)
(*                                                                         *)
(* Every leaf call (a GitClient method or a platform method) that an       *)
(* operation issues is appended to `log` with its outcome, so that the     *)
(* order of calls and the handling of their failures can be stated.        *)
(***************************************************************************)
EXTENDS Integers, Sequences, FiniteSets, TLC

(***************************************************************************)
(* Bounds of the model                                                     *)
(***************************************************************************)
\* largest major / minor / patch number a version may reach
MaxNum == 2
\* number of operations started in one behaviour
MaxOps == 2
\* number of failed calls in one operation after which the environment
\* makes no further call fail
MaxFaults == 1
\* number of commits in the range of a release
MaxCommits == 2

(***************************************************************************)
(* Strings.  Branch names are compared by the code with ===, startsWith,   *)
(* includes and a regular expression, so a name is its character sequence. *)
(***************************************************************************)
Chars(s) ==
  CASE s = "main" -> <<"m","a","i","n">>
    [] s = "master" -> <<"m","a","s","t","e","r">>
    [] s = "develop" -> <<"d","e","v","e","l","o","p">>
    [] s = "develop/" -> <<"d","e","v","e","l","o","p","/">>
    [] s = "develop/next" -> <<"d","e","v","e","l","o","p","/","n","e","x","t">>
    [] s = "feature/develop-x" ->
         <<"f","e","a","t","u","r","e","/","d","e","v","e","l","o","p","-","x">>
    [] s = "remotes/" -> <<"r","e","m","o","t","e","s","/">>
    [] s = "remotes/origin/" ->
         <<"r","e","m","o","t","e","s","/","o","r","i","g","i","n","/">>
    [] s = "origin/" -> <<"o","r","i","g","i","n","/">>
    [] s = "" -> <<>>

\* the branch names that occur in the modelled repositories, in the
\* (alphabetical) order in which `git branch -a` lists them
BranchOrder == <<"develop", "develop/next", "feature/develop-x", "main", "master">>
BranchNames == {BranchOrder[i] : i \in 1..Len(BranchOrder)}

StartsWith(s, p) == Len(p) <= Len(s) /\ SubSeq(s, 1, Len(p)) = p

Includes(s, p) == \E i \in 1..(Len(s) - Len(p) + 1) : SubSeq(s, i, i + Len(p) - 1) = p

\* the name `git branch -a` prints for the remote-tracking branch of b
RemoteRef(b) == Chars("remotes/origin/") \o Chars(b)

\* s.replace(/^remotes\/[^/]+\//, '')
StripRemotePrefix(s) ==
  IF StartsWith(s, Chars("remotes/"))
       /\ \E j \in 10..Len(s) : s[j] = "/" /\ \A k \in 9..(j - 1) : s[k] # "/"
  THEN LET j == CHOOSE j \in 10..Len(s) : s[j] = "/" /\ \A k \in 9..(j - 1) : s[k] # "/"
       IN  SubSeq(s, j + 1, Len(s))
  ELSE s

\* the branch name spelled by a character sequence
NameOf(cs) == CHOOSE n \in BranchNames : Chars(n) = cs

Rank(b) == CHOOSE i \in 1..Len(BranchOrder) : BranchOrder[i] = b

\* element [0] of a branch list filtered from the output of `git branch -a`
First(S) == CHOOSE b \in S : \A c \in S : Rank(b) <= Rank(c)

(***************************************************************************)
(* GIT_DEFAULTS / CONFIG / RELEASE_CONFIG                                  *)
(***************************************************************************)
MAIN_BRANCH == "main"
MASTER_BRANCH == "master"
DEVELOP_BRANCH == "develop"
DEVELOP_BRANCH_PREFIX == "develop/"
RELEASE_ENABLED == TRUE
SKIP_ON_ERROR == TRUE
AUTO_GENERATE_NOTES == TRUE
USE_CUSTOM_BODY == TRUE
\* RELEASE_CONFIG entries that generateReleaseBody reads: the fallback to the
\* notes of the platform, its threshold, and the hiding of Other Changes
FALLBACK_TO_AUTO == TRUE
MIN_COMMITS_FOR_CUSTOM == 2
STRICT_CONVENTIONAL_COMMITS == FALSE

(***************************************************************************)
(* Semantic versions (the semver package as VersionManager uses it).       *)
(* A version string is an optional "v" prefix and a body; the body is a    *)
(* semantic version, possibly with a pre-release label, or it is not a     *)
(* version at all.                                                         *)
(***************************************************************************)
Version == [major : 0..MaxNum, minor : 0..MaxNum, patch : 0..MaxNum, pre : BOOLEAN]

V(a, b, c) == [major |-> a, minor |-> b, patch |-> c, pre |-> FALSE]
Pre(a, b, c) == [major |-> a, minor |-> b, patch |-> c, pre |-> TRUE]

\* the body of a string that is not a semantic version ("garbage")
Garbage == [major |-> -1, minor |-> 0, patch |-> 0, pre |-> FALSE]
\* JavaScript null, where a version is expected
Null == [major |-> -2, minor |-> 0, patch |-> 0, pre |-> FALSE]

\* a version string: "v1.0.0" is Str(TRUE, V(1,0,0)), "1.0.0" is Str(FALSE, V(1,0,0))
Str(p, body) == [pfx |-> p, body |-> body]

\* options.version left undefined
NoVersion == Str(FALSE, Null)

DEFAULT_VERSION == V(0, 0, 0)

\* semver.valid of a string without prefix
SemverValid(s) == s.body # Garbage

\* semver.compare
SemverCompare(a, b) ==
  IF a.major # b.major THEN (IF a.major > b.major THEN 1 ELSE -1)
  ELSE IF a.minor # b.minor THEN (IF a.minor > b.minor THEN 1 ELSE -1)
  ELSE IF a.patch # b.patch THEN (IF a.patch > b.patch THEN 1 ELSE -1)
  ELSE IF a.pre = b.pre THEN 0
  ELSE IF a.pre THEN -1 ELSE 1

\* semver.inc(version, type) for type in major | minor | patch
SemverInc(v, type) ==
  CASE type = "major" ->
         [major |-> IF v.minor # 0 \/ v.patch # 0 \/ ~v.pre THEN v.major + 1 ELSE v.major,
          minor |-> 0, patch |-> 0, pre |-> FALSE]
    [] type = "minor" ->
         [major |-> v.major,
          minor |-> IF v.patch # 0 \/ ~v.pre THEN v.minor + 1 ELSE v.minor,
          patch |-> 0, pre |-> FALSE]
    [] type = "patch" ->
         [major |-> v.major, minor |-> v.minor,
          patch |-> IF ~v.pre THEN v.patch + 1 ELSE v.patch, pre |-> FALSE]

\* semver.maxSatisfying(versions, '*'): a pre-release version does not
\* satisfy the range '*'
MaxSatisfying(versions) ==
  LET cand == {v \in versions : ~v.pre}
  IN  IF cand = {} THEN Null
      ELSE CHOOSE v \in cand : \A w \in cand : SemverCompare(v, w) >= 0

\* VersionManager.cleanVersion: version.replace(/^v/, '')
cleanVersion(s) == [s EXCEPT !.pfx = FALSE]

\* VersionManager.formatVersion with the default prefix 'v'
formatVersion(v) == Str(TRUE, v)

\* VersionManager.getLatestVersionFromTags
getLatestVersionFromTags(tagList) ==
  LET validVersions == {cleanVersion(t).body : t \in {u \in tagList : SemverValid(cleanVersion(u))}}
  IN  MaxSatisfying(validVersions)

InBounds(v) == v.major <= MaxNum /\ v.minor <= MaxNum /\ v.patch <= MaxNum

VersionTypes == {"major", "minor", "patch"}

(***************************************************************************)
(* State                                                                   *)
(***************************************************************************)
VARIABLES
  isRepo,          \* the working directory is a git repository
  origin,          \* repository the `origin` remote points at, or NoRemote
  localBranches,   \* local branches
  remoteBranches,  \* branches of origin (remotes/origin/<name>)
  current,         \* current branch
  dirty,           \* status().isClean() is false
  conflicted,      \* status().conflicted is not empty
  tags,            \* local tags
  remoteTags,      \* tags pushed to origin
  platformRepos,   \* repositories that exist on the hosting platform
  releases,        \* tag names that have a platform release
  defaultBranch,   \* default branch of the platform repository
  ownerSaved,      \* ~/.git_login holds an owner
  currentVersion,  \* VersionManager.currentVersion
  op,              \* the operation that runs or ran last
  pc,              \* position inside the operation, "idle" between operations
  args,            \* arguments of the operation
  developBranch,   \* local variable developBranch of publish() / commit()
  log,             \* leaf calls issued by the operation, in order
  result,          \* outcome of the operation: "running", "ok" or the error
  start,           \* repository state when the operation was invoked
  partialTag,      \* tag left by a publish() that failed after creating it
  lastInit,        \* options of the last successful initRepository
  returned,        \* version the last VersionManager call returned, or Null
  opCount,         \* number of operations started
  platform,        \* this.platform.platform: kind of the client GitFlow was built with
  savedPlatform,   \* platform named by ~/.git_platform, or "none"
  flow,            \* the caller that drives the operations: fullFlow or a CLI handler
  http,            \* HTTP exchanges of the platform adapter, in order
  commits,         \* commits git.log returns for the range of the release
  smart,           \* RELEASE_CONFIG.SMART_CATEGORIZATION
  releaseOptions   \* options of the last platform.createRelease call

repoVars == <<isRepo, origin, localBranches, remoteBranches, current, dirty,
              conflicted, tags, remoteTags>>
platformVars == <<platformRepos, releases, defaultBranch>>
ctlVars == <<op, pc, args, developBranch, log, result, start, opCount>>
extVars == <<platform, savedPlatform, flow, http, commits, smart, releaseOptions>>
vars == <<repoVars, platformVars, ownerSaved, currentVersion, ctlVars,
          partialTag, lastInit, returned, extVars>>

NoRemote == "none"
NoBranch == ""
RepoNames == {"app", "lib"}
\* name of the working directory (the fallback repository name)
CwdName == "app"
RepoTypes == {"user", "org"}
NoArgs == [version |-> NoVersion, versionType |-> "none", repoName |-> "", repoType |-> "",
           tags |-> {}]
NoInit == [repoName |-> "", repoType |-> ""]
\* GitPlatform
GITHUB == "github"
GITEE == "gitee"
Platforms == {GITHUB, GITEE}
NoPlatform == "none"
\* no caller above the operation: the methods of GitFlow are called directly
NoFlow == [caller |-> "none", at |-> "none", base |-> 0]
\* no createRelease call yet
NoRelease == [body |-> <<>>, generateReleaseNotes |-> FALSE, called |-> FALSE]

(***************************************************************************)
(* Initial states: a working directory before or after earlier use of the  *)
(* tool, and a freshly constructed GitFlow (VersionManager at 0.0.0).      *)
(***************************************************************************)
Scene(r, o, l, rb, c, d) ==
  [isRepo |-> r, origin |-> o, local |-> l, remote |-> rb, current |-> c,
   dirty |-> d, conflicted |-> FALSE, tags |-> {},
   platformRepos |-> IF o = NoRemote THEN {} ELSE {o},
   defaultBranch |-> MAIN_BRANCH, ownerSaved |-> o # NoRemote]

\* a repository with an active develop branch, checked out
Active == Scene(TRUE, "app", {"main", "develop"}, {"main", "develop"}, "develop", FALSE)

Scenes == {
  \* a directory that is no repository yet, with or without an existing remote
  Scene(FALSE, NoRemote, {}, {}, NoBranch, TRUE),
  [Scene(FALSE, NoRemote, {}, {}, NoBranch, FALSE) EXCEPT !.platformRepos = {"app"}],
  \* a repository without origin
  Scene(TRUE, NoRemote, {"main"}, {}, "main", TRUE),
  \* repositories without a local develop branch
  Scene(TRUE, "app", {"main"}, {"main"}, "main", FALSE),
  Scene(TRUE, "app", {"main"}, {"main"}, "main", TRUE),
  Scene(TRUE, "app", {"main"}, {"main", "develop"}, "main", FALSE),
  Scene(TRUE, "app", {"main"}, {"main", "feature/develop-x"}, "main", FALSE),
  \* repositories with a develop branch
  Active,
  [Active EXCEPT !.dirty = TRUE],
  [Active EXCEPT !.dirty = TRUE, !.conflicted = TRUE],
  [Active EXCEPT !.ownerSaved = FALSE],
  [Active EXCEPT !.defaultBranch = "develop"],
  [Active EXCEPT !.tags = {Str(TRUE, V(1, 0, 0))}],
  [Active EXCEPT !.tags = {Str(TRUE, V(1, 0, 0)), Str(FALSE, V(1, 1, 0)), Str(FALSE, Garbage)}],
  [Active EXCEPT !.tags = {Str(TRUE, Pre(1, 0, 0))}],
  Scene(TRUE, "app", {"main", "develop"}, {"main"}, "main", FALSE),
  Scene(TRUE, "app", {"main", "develop/next"}, {"main", "develop/next"}, "develop/next", FALSE) }

\* tag lists passed to the VersionManager: those of the scenes, the list
\* v1.0.0, v1.2.0, garbage, v1.1.5, a list whose greatest version is a
\* pre-release, and a list without a valid version
TagScenes ==
  {s.tags : s \in Scenes}
    \cup {{Str(TRUE, V(1, 0, 0)), Str(TRUE, V(1, 2, 0)), Str(FALSE, Garbage), Str(TRUE, V(1, 1, 5))},
          {Str(TRUE, V(1, 0, 0)), Str(TRUE, Pre(1, 1, 0))},
          {Str(FALSE, Garbage)}}

InitScene ==
  /\ \E s \in Scenes :
       /\ isRepo = s.isRepo
       /\ origin = s.origin
       /\ localBranches = s.local
       /\ remoteBranches = s.remote
       /\ current = s.current
       /\ dirty = s.dirty
       /\ conflicted = s.conflicted
       /\ tags = s.tags
       /\ remoteTags = s.tags
       /\ platformRepos = s.platformRepos
       /\ defaultBranch = s.defaultBranch
       /\ ownerSaved = s.ownerSaved
  /\ currentVersion = DEFAULT_VERSION
  /\ op = "none"
  /\ pc = "idle"
  /\ args = NoArgs
  /\ developBranch = NoBranch
  /\ log = <<>>
  /\ result = "none"
  /\ start = [current |-> current, local |-> localBranches, remote |-> remoteBranches,
              tags |-> tags, conflicted |-> conflicted, origin |-> origin,
              isRepo |-> isRepo, platformRepos |-> platformRepos,
               dirty |-> dirty]
  /\ partialTag = NoVersion
  /\ lastInit = NoInit
  /\ returned = Null
  /\ opCount = 0
  /\ flow = NoFlow
  /\ http = <<>>
  /\ releaseOptions = NoRelease

\* a GitFlow built with a GitHub client, as the CLI builds it for commit and
\* publish; the range of a release holds no commit
Init ==
  /\ InitScene
  /\ releases = {}
  /\ platform = GITHUB
  /\ savedPlatform = IF ownerSaved THEN GITHUB ELSE NoPlatform
  /\ commits = <<>>
  /\ smart = TRUE

(***************************************************************************)
(* Helpers shared by the operations                                        *)
(***************************************************************************)
\* number of failed calls of the running operation
Failures == Cardinality({i \in 1..Len(log) : ~log[i].ok})

\* outcomes of a call: it succeeds only if the state allows it, and the
\* environment can make it fail while the operation has seen fewer than
\* MaxFaults failures
Outcomes(canSucceed) ==
  IF ~canSucceed THEN {FALSE}
  ELSE IF Failures < MaxFaults THEN {TRUE, FALSE}
  ELSE {TRUE}

\* a call of a GitClient or platform method, issued on the current branch
Call(name, branch, tag, ok) ==
  [call |-> name, branch |-> branch, tag |-> tag, on |-> current, ok |-> ok]

\* a call issued after the operation itself has changed the branch to b
CallOn(name, branch, tag, b, ok) ==
  [call |-> name, branch |-> branch, tag |-> tag, on |-> b, ok |-> ok]

\* an operation is invoked: its bookkeeping
Begin(o, a) ==
  /\ pc = "idle"
  /\ opCount < MaxOps
  /\ op' = o
  /\ args' = a
  /\ log' = <<>>
  /\ developBranch' = NoBranch
  /\ start' = [current |-> current, local |-> localBranches, remote |-> remoteBranches,
               tags |-> tags, conflicted |-> conflicted, origin |-> origin,
               isRepo |-> isRepo, platformRepos |-> platformRepos,
               dirty |-> dirty]
  /\ opCount' = opCount + 1

\* the operation throws err to its caller
Throw(err) == pc' = "idle" /\ result' = err

\* the operation returns normally
Return == pc' = "idle" /\ result' = "ok"

\* the operation goes on with the step at label l
Goto(l) == pc' = l /\ result' = "running"

\* the versions a caller passes as options.version / to setCurrentVersion
ExplicitVersions == {Str(FALSE, V(1, 0, 0)), Str(TRUE, V(0, 1, 0)), Str(FALSE, Garbage)}

(***************************************************************************)
(* VersionManager, as reached through GitFlow.getVersionManager()          *)
(***************************************************************************)
\* the versions a caller passes to VersionManager.setCurrentVersion
SetVersions == ExplicitVersions \cup {Str(FALSE, Pre(1, 0, 0))}

\* VersionManager.setCurrentVersion(version)
setCurrentVersion(version) ==
  /\ Begin("setCurrentVersion", [NoArgs EXCEPT !.version = version])
  /\ pc' = "idle"
  /\ IF SemverValid(cleanVersion(version))
     THEN currentVersion' = cleanVersion(version).body /\ result' = "ok"
     ELSE result' = "InvalidVersion" /\ UNCHANGED currentVersion
  /\ returned' = Null
  /\ UNCHANGED <<repoVars, platformVars, ownerSaved, partialTag, lastInit, extVars>>

\* incrementVersion that returns the new version without storing it
incrementVersion_NotStored(type) ==
  /\ InBounds(SemverInc(currentVersion, type))
  /\ Begin("incrementVersion", [NoArgs EXCEPT !.versionType = type])
  /\ pc' = "idle"
  /\ returned' = SemverInc(currentVersion, type)
  /\ result' = "ok"
  /\ UNCHANGED <<repoVars, platformVars, ownerSaved, currentVersion, partialTag, lastInit, extVars>>

\* VersionManager.incrementVersion(type)
incrementVersion(type) ==
  /\ InBounds(SemverInc(currentVersion, type))
  /\ Begin("incrementVersion", [NoArgs EXCEPT !.versionType = type])
  /\ pc' = "idle"
  /\ currentVersion' = SemverInc(currentVersion, type)
  /\ returned' = SemverInc(currentVersion, type)
  /\ result' = "ok"
  /\ UNCHANGED <<repoVars, platformVars, ownerSaved, partialTag, lastInit, extVars>>

\* VersionManager.getLatestVersionFromTags(tags), called by itself
latestVersionFromTags(tagList) ==
  /\ Begin("getLatestVersionFromTags", [NoArgs EXCEPT !.tags = tagList])
  /\ pc' = "idle"
  /\ returned' = getLatestVersionFromTags(tagList)
  /\ result' = "ok"
  /\ UNCHANGED <<repoVars, platformVars, ownerSaved, currentVersion, partialTag, lastInit, extVars>>

\* VersionManager.suggestNextVersion(tags)
suggestNextVersion(tagList) ==
  /\ Begin("suggestNextVersion", [NoArgs EXCEPT !.tags = tagList])
  /\ pc' = "idle"
  /\ LET latestVersion == getLatestVersionFromTags(tagList)
     IN  currentVersion' = IF latestVersion # Null THEN latestVersion ELSE currentVersion
  /\ returned' = Null
  /\ result' = "ok"
  /\ UNCHANGED <<repoVars, platformVars, ownerSaved, partialTag, lastInit, extVars>>

(***************************************************************************)
(* GitFlow.publish(options)                                                *)
(***************************************************************************)
\* BranchManager.isOnDevelopBranch() for a current branch b
isOnDevelopBranch(b) ==
  b = DEVELOP_BRANCH \/ StartsWith(Chars(b), Chars(DEVELOP_BRANCH) \o <<"/">>)

\* branches.local.filter(b => b.startsWith('develop/') || b === 'develop')
LocalDevelopBranches ==
  {b \in localBranches :
     StartsWith(Chars(b), Chars(DEVELOP_BRANCH_PREFIX)) \/ b = DEVELOP_BRANCH}

\* branches.remote.filter(b => b.includes('develop')).map(strip remotes/<remote>/)
RemoteDevelopBranches ==
  {NameOf(StripRemotePrefix(RemoteRef(b))) :
     b \in {c \in remoteBranches : Includes(RemoteRef(c), Chars(DEVELOP_BRANCH))}}

\* the version publish() resolves when options.version is undefined
NextVersion(type) ==
  LET latestVersion == getLatestVersionFromTags(tags)
      base == IF latestVersion # Null THEN latestVersion ELSE currentVersion
  IN  SemverInc(base, IF type = "none" THEN "patch" ELSE type)

PublishStart(version, type) ==
  /\ version = NoVersion => InBounds(NextVersion(type))
  /\ version # NoVersion => type = "none"
  /\ Begin("publish", [NoArgs EXCEPT !.version = version, !.versionType = type])
  /\ Goto("resolveVersion")
  /\ UNCHANGED <<repoVars, platformVars, ownerSaved, currentVersion, partialTag, lastInit, returned, extVars>>

\* step 1: options.version, or getTags + suggestNextVersion + incrementVersion
PublishResolveVersion ==
  /\ op = "publish" /\ pc = "resolveVersion"
  /\ IF args.version # NoVersion
     THEN /\ IF SemverValid(cleanVersion(args.version))
             THEN currentVersion' = cleanVersion(args.version).body /\ Goto("locate")
             ELSE Throw("InvalidVersion") /\ UNCHANGED currentVersion
          /\ UNCHANGED log
     ELSE \E ok \in Outcomes(isRepo) :
            /\ log' = Append(log, Call("getTags", NoBranch, NoVersion, ok))
            /\ IF ok
               THEN currentVersion' = NextVersion(args.versionType) /\ Goto("locate")
               ELSE Throw("RepositoryError") /\ UNCHANGED currentVersion
  /\ UNCHANGED <<repoVars, platformVars, ownerSaved, partialTag, lastInit, returned, extVars,
                 op, args, developBranch, start, opCount>>

\* step 2: getCurrentBranch, isOnDevelopBranch, getBranches and the choice
\* of the develop branch
PublishLocate ==
  /\ op = "publish" /\ pc = "locate"
  /\ \E ok \in Outcomes(isRepo) :
       IF ~ok
       THEN /\ log' = Append(log, Call("getCurrentBranch", NoBranch, NoVersion, FALSE))
            /\ Throw("RepositoryError")
            /\ UNCHANGED developBranch
       ELSE IF isOnDevelopBranch(current)
       THEN /\ log' = log \o <<Call("getCurrentBranch", NoBranch, NoVersion, TRUE),
                               Call("getCurrentBranch", NoBranch, NoVersion, TRUE)>>
            /\ developBranch' = current
            /\ Goto("checkoutMain")
       ELSE /\ log' = log \o <<Call("getCurrentBranch", NoBranch, NoVersion, TRUE),
                               Call("getCurrentBranch", NoBranch, NoVersion, TRUE),
                               Call("getBranches", NoBranch, NoVersion, TRUE)>>
            /\ IF LocalDevelopBranches # {}
               THEN developBranch' = First(LocalDevelopBranches) /\ Goto("checkoutDevelop")
               ELSE IF RemoteDevelopBranches # {}
               THEN developBranch' = First(RemoteDevelopBranches) /\ Goto("checkoutRemoteDevelop")
               ELSE Throw("NoDevelopBranch") /\ UNCHANGED developBranch
  /\ UNCHANGED <<repoVars, platformVars, ownerSaved, currentVersion, partialTag, lastInit, returned, extVars,
                 op, args, start, opCount>>

\* gitClient.checkout(developBranch)
PublishCheckoutDevelop ==
  /\ op = "publish" /\ pc = "checkoutDevelop"
  /\ \E ok \in Outcomes(developBranch \in localBranches) :
       /\ log' = Append(log, Call("checkout", developBranch, NoVersion, ok))
       /\ IF ok
          THEN current' = developBranch /\ Goto("checkoutMain")
          ELSE Throw("RepositoryError") /\ UNCHANGED current
  /\ UNCHANGED <<isRepo, origin, localBranches, remoteBranches, dirty, conflicted, tags,
                 remoteTags, platformVars, ownerSaved, currentVersion, partialTag, lastInit, returned, extVars,
                 op, args, developBranch, start, opCount>>

\* gitClient.checkoutFromRemote(developBranch, 'origin/' + developBranch)
PublishCheckoutRemoteDevelop ==
  /\ op = "publish" /\ pc = "checkoutRemoteDevelop"
  /\ \E ok \in Outcomes(developBranch \notin localBranches /\ developBranch \in remoteBranches) :
       /\ log' = Append(log, Call("checkoutFromRemote", developBranch, NoVersion, ok))
       /\ IF ok
          THEN /\ current' = developBranch
               /\ localBranches' = localBranches \cup {developBranch}
               /\ Goto("checkoutMain")
          ELSE Throw("RepositoryError") /\ UNCHANGED <<current, localBranches>>
  /\ UNCHANGED <<isRepo, origin, remoteBranches, dirty, conflicted, tags,
                 remoteTags, platformVars, ownerSaved, currentVersion, partialTag, lastInit, returned, extVars,
                 op, args, developBranch, start, opCount>>

\* `git checkout b` succeeds for a local branch, and for a branch of origin
\* (git then creates the local branch that tracks it)
CanCheckout(b) == isRepo /\ (b \in localBranches \/ b \in remoteBranches)

\* publish() without its step 3: the merge then runs on the develop branch
PublishCheckoutMain_Skipped ==
  /\ op = "publish" /\ pc = "checkoutMain"
  /\ Goto("merge")
  /\ UNCHANGED <<repoVars, platformVars, ownerSaved, currentVersion, partialTag, lastInit, returned, extVars,
                 op, args, developBranch, log, start, opCount>>

\* step 3: branchManager.checkoutMain()
PublishCheckoutMain ==
  /\ op = "publish" /\ pc = "checkoutMain"
  /\ \E ok \in Outcomes(CanCheckout(MAIN_BRANCH)) :
       /\ log' = Append(log, Call("checkout", MAIN_BRANCH, NoVersion, ok))
       /\ IF ok
          THEN /\ current' = MAIN_BRANCH
               /\ localBranches' = localBranches \cup {MAIN_BRANCH}
               /\ Goto("merge")
          ELSE Throw("RepositoryError") /\ UNCHANGED <<current, localBranches>>
  /\ UNCHANGED <<isRepo, origin, remoteBranches, dirty, conflicted, tags,
                 remoteTags, platformVars, ownerSaved, currentVersion, partialTag, lastInit, returned, extVars,
                 op, args, developBranch, start, opCount>>

\* step 4: gitClient.merge(developBranch, ['--no-ff']); a merge that fails
\* may leave conflicted files behind
PublishMerge ==
  /\ op = "publish" /\ pc = "merge"
  /\ \E ok \in Outcomes(developBranch \in localBranches), conflict \in BOOLEAN :
       /\ log' = Append(log, Call("merge --no-ff", developBranch, NoVersion, ok))
       /\ IF ok
          THEN ~conflict /\ Goto("createTag") /\ UNCHANGED <<dirty, conflicted>>
          ELSE /\ Throw("RepositoryError")
               /\ conflict => developBranch \in localBranches
               /\ conflicted' = (conflicted \/ conflict)
               /\ dirty' = (dirty \/ conflict)
  /\ UNCHANGED <<isRepo, origin, localBranches, remoteBranches, current, tags,
                 remoteTags, platformVars, ownerSaved, currentVersion, partialTag, lastInit, returned, extVars,
                 op, args, developBranch, start, opCount>>

\* versionManager.getFormattedVersion()
formattedVersion == formatVersion(currentVersion)

\* step 5a: remoteManager.createAndPushTag -> gitClient.createTag; `git tag -a`
\* fails when the tag exists
PublishCreateTag ==
  /\ op = "publish" /\ pc = "createTag"
  /\ LET ok == formattedVersion \notin tags
     IN  /\ log' = Append(log, Call("createTag", NoBranch, formattedVersion, ok))
         /\ IF ok
            THEN tags' = tags \cup {formattedVersion} /\ Goto("pushTags")
            ELSE Throw("RepositoryError") /\ UNCHANGED tags
  /\ UNCHANGED <<isRepo, origin, localBranches, remoteBranches, current, dirty, conflicted,
                 remoteTags, platformVars, ownerSaved, currentVersion, partialTag, lastInit, returned, extVars,
                 op, args, developBranch, start, opCount>>

\* pushTags() with its error caught instead of thrown
PublishPushTags_IgnoresFailure ==
  /\ op = "publish" /\ pc = "pushTags"
  /\ \E ok \in Outcomes(origin # NoRemote) :
       /\ log' = Append(log, Call("pushTags", NoBranch, NoVersion, ok))
       /\ remoteTags' = IF ok THEN remoteTags \cup tags ELSE remoteTags
  /\ Goto("pushMain")
  /\ UNCHANGED <<isRepo, origin, localBranches, remoteBranches, current, dirty, conflicted,
                 tags, platformVars, ownerSaved, currentVersion, partialTag, lastInit, returned, extVars,
                 op, args, developBranch, start, opCount>>

\* step 5b: remoteManager.createAndPushTag -> pushTags()
PublishPushTags ==
  /\ op = "publish" /\ pc = "pushTags"
  /\ \E ok \in Outcomes(origin # NoRemote) :
       /\ log' = Append(log, Call("pushTags", NoBranch, NoVersion, ok))
       /\ IF ok
          THEN remoteTags' = remoteTags \cup tags /\ Goto("pushMain") /\ UNCHANGED partialTag
          ELSE Throw("RepositoryError") /\ partialTag' = formattedVersion /\ UNCHANGED remoteTags
  /\ UNCHANGED <<isRepo, origin, localBranches, remoteBranches, current, dirty, conflicted,
                 tags, platformVars, ownerSaved, currentVersion, lastInit, returned, extVars,
                 op, args, developBranch, start, opCount>>

\* step 6: remoteManager.push(mainBranch)
PublishPushMain ==
  /\ op = "publish" /\ pc = "pushMain"
  /\ \E ok \in Outcomes(origin # NoRemote /\ MAIN_BRANCH \in localBranches) :
       /\ log' = Append(log, Call("push", MAIN_BRANCH, NoVersion, ok))
       /\ IF ok
          THEN /\ remoteBranches' = remoteBranches \cup {MAIN_BRANCH}
               /\ Goto(IF RELEASE_ENABLED THEN "releaseInfo" ELSE "defaultBranch")
               /\ UNCHANGED partialTag
          ELSE Throw("RepositoryError") /\ partialTag' = formattedVersion
               /\ UNCHANGED remoteBranches
  /\ UNCHANGED <<isRepo, origin, localBranches, current, dirty, conflicted,
                 tags, remoteTags, platformVars, ownerSaved, currentVersion, lastInit, returned, extVars,
                 op, args, developBranch, start, opCount>>

\* the methods of the two platform clients
Implemented(kind) ==
  {"getCurrentUser", "getUserOrgs", "repoExists", "createUserRepo", "createOrgRepo",
   "getRepo", "deleteRepo", "getRepoSshUrl", "getRepoHttpsUrl", "updateDefaultBranch"}
    \cup (IF kind = GITHUB THEN {"createRelease", "getLatestRelease", "releaseExists"} ELSE {})

\* createGitHubRelease with RELEASE_CONFIG.SKIP_ON_ERROR read as false
ReleaseCatch_Rethrows == Throw("PlatformError")

\* what createGitHubRelease does with an error it catches
ReleaseCatch == IF SKIP_ON_ERROR THEN Goto("defaultBranch") ELSE Throw("PlatformError")

\* repository name parsed from the URL of origin
RepoOfOrigin == origin

(***************************************************************************)
(* generateReleaseBody.  A commit of git.log is its first message line,    *)
(* whether its body includes 'BREAKING CHANGE', and the categories whose   *)
(* keyword list matches the lower-cased line.  The line is a type word, the *)
(* shape of what follows it and a subject:                                 *)
(*   colon   "feat: subject"          scoped  "feat(scope): subject"       *)
(*   open    "feat(subject"           none    "subject"                    *)
(* The short hash of a commit is its position in the log.                  *)
(***************************************************************************)
Line(type, shape, subject) == [type |-> type, shape |-> shape, subject |-> subject]

LogCommit(message, breaking, keys) == [message |-> message, breaking |-> breaking, keys |-> keys]

\* message.startsWith('<type>:') || message.startsWith('<type>(')
startsWith(message, type) == message.type = type /\ message.shape \in {"colon", "scoped", "open"}

\* message.replace(/^<type>(\([^)]*\))?:\s*/, '')
replace(message) ==
  IF message.shape \in {"colon", "scoped"} THEN Line("none", "none", message.subject) ELSE message

\* `- ${message} (${hash})`, followed by the robot mark of a keyword match
Entry(message, hash, marked) == [message |-> message, hash |-> hash, marked |-> marked]

\* SMART_CATEGORIZATION_KEYWORDS is searched in this order
KeywordOrder == <<"breaking", "features", "fixes", "docs", "chores">>

\* the array a commit is pushed to, and whether it counts as conventional
classify(commit, hash) ==
  LET message == commit.message
      Pushed(category, conventional, entry) ==
        [category |-> category, conventional |-> conventional, entry |-> entry]
  IN  IF commit.breaking THEN Pushed("breaking", TRUE, Entry(message, hash, FALSE))
      ELSE IF startsWith(message, "feat") THEN Pushed("features", TRUE, Entry(replace(message), hash, FALSE))
      ELSE IF startsWith(message, "fix") THEN Pushed("fixes", TRUE, Entry(replace(message), hash, FALSE))
      ELSE IF startsWith(message, "docs") THEN Pushed("docs", TRUE, Entry(replace(message), hash, FALSE))
      ELSE IF startsWith(message, "chore") THEN Pushed("chores", TRUE, Entry(replace(message), hash, FALSE))
      ELSE IF smart /\ commit.keys # {}
        THEN LET first == CHOOSE i \in 1..Len(KeywordOrder) :
                            /\ KeywordOrder[i] \in commit.keys
                            /\ \A j \in 1..(i - 1) : KeywordOrder[j] \notin commit.keys
             IN  Pushed(KeywordOrder[first], FALSE, Entry(message, hash, TRUE))
      ELSE Pushed("others", FALSE, Entry(message, hash, FALSE))

SectionOrder_FixesFirst == <<"breaking", "fixes", "features", "docs", "chores", "others">>

\* the order in which the sections are appended to the body
SectionOrder == <<"breaking", "features", "fixes", "docs", "chores", "others">>

\* the heading of the section of a category
Heading(category) ==
  CASE category = "breaking" -> "Breaking Changes"
    [] category = "features" -> "New Features"
    [] category = "fixes" -> "Bug Fixes"
    [] category = "docs" -> "Documentation"
    [] category = "chores" -> "Chores & Maintenance"
    [] category = "others" -> "Other Changes"

Block(heading, entries) == [heading |-> heading, entries |-> entries]

\* the condition under which the section of a category is appended
IsShown(category, entries) ==
  entries # <<>> /\ (category = "others" => ~STRICT_CONVENTIONAL_COMMITS)

\* the check of the minimum for the custom format
fallsBack(conventionalCommitCount) ==
  FALLBACK_TO_AUTO /\ conventionalCommitCount < MIN_COMMITS_FOR_CUSTOM

\* the body as the sequence of its blocks: the sections, the note about the
\* robot mark and the compare link; '' is the empty sequence
generateReleaseBody(okLog, previousVersion) ==
  LET total == Len(commits)
      pushed == [i \in 1..total |-> classify(commits[i], i)]
      Array(category) ==
        LET In(p) == p.category = category
            kept == SelectSeq(pushed, In)
        IN  [i \in 1..Len(kept) |-> kept[i].entry]
      conventionalCommitCount == Cardinality({i \in 1..total : pushed[i].conventional})
      section == [i \in 1..Len(SectionOrder) |->
                    Block(Heading(SectionOrder[i]), Array(SectionOrder[i]))]
      Shown(b) == \E i \in 1..Len(SectionOrder) :
                    b = section[i] /\ IsShown(SectionOrder[i], section[i].entries)
      note == IF smart /\ Len(Array("others")) < total - conventionalCommitCount
              THEN <<Block("robot mark note", <<>>)>> ELSE <<>>
      link == IF previousVersion THEN <<Block("Full Changelog", <<>>)>> ELSE <<>>
  IN  IF ~okLog \/ total = 0 THEN <<>>
      ELSE IF fallsBack(conventionalCommitCount) THEN <<>>
      ELSE SelectSeq(section, Shown) \o note \o link

generateReleaseNotes_Always(customBody) == AUTO_GENERATE_NOTES

\* the generateReleaseNotes option that createGitHubRelease passes
generateReleaseNotes(customBody) == IF customBody # <<>> THEN FALSE ELSE AUTO_GENERATE_NOTES

\* step 7a: createGitHubRelease -> getRepoInfo (owner from ~/.git_login,
\* repository from the origin URL)
PublishReleaseInfo ==
  /\ op = "publish" /\ pc = "releaseInfo"
  /\ IF ~ownerSaved
     THEN ReleaseCatch /\ UNCHANGED log
     ELSE \E ok \in Outcomes(isRepo) :
            /\ log' = Append(log, Call("getRemotes", NoBranch, NoVersion, ok))
            /\ IF ok /\ origin # NoRemote THEN Goto("latestRelease") ELSE ReleaseCatch
  /\ UNCHANGED <<repoVars, platformVars, ownerSaved, currentVersion, partialTag, lastInit, returned, extVars,
                 op, args, developBranch, start, opCount>>

\* step 7b: platform.getLatestRelease, whose error is ignored; the call of a
\* method the client does not have throws a TypeError
PublishLatestRelease ==
  /\ op = "publish" /\ pc = "latestRelease"
  /\ \E ok \in Outcomes(RepoOfOrigin \in platformRepos
                          /\ "getLatestRelease" \in Implemented(platform)) :
       log' = Append(log, Call("getLatestRelease", NoBranch, NoVersion, ok))
  /\ Goto("releaseBody")
  /\ UNCHANGED <<repoVars, platformVars, ownerSaved, currentVersion, partialTag, lastInit, returned, extVars,
                 op, args, developBranch, start, opCount>>

\* step 7c: generateReleaseBody -> git.log, whose error yields an empty body
PublishReleaseBody ==
  /\ op = "publish" /\ pc = "releaseBody"
  /\ IF USE_CUSTOM_BODY
     THEN \E ok \in Outcomes(isRepo) :
            LET latest == log[Len(log)]
                previousTagName == latest.call = "getLatestRelease" /\ latest.ok /\ releases # {}
            IN  /\ log' = Append(log, Call("log", NoBranch, formattedVersion, ok))
                /\ releaseOptions' = [NoRelease EXCEPT !.body = generateReleaseBody(ok, previousTagName)]
     ELSE log' = log /\ releaseOptions' = NoRelease
  /\ Goto("createRelease")
  /\ UNCHANGED <<repoVars, platformVars, ownerSaved, currentVersion, partialTag, lastInit, returned,
                 platform, savedPlatform, flow, http, commits, smart,
                 op, args, developBranch, start, opCount>>

\* step 7d: platform.createRelease
PublishCreateRelease ==
  /\ op = "publish" /\ pc = "createRelease"
  /\ \E ok \in Outcomes(RepoOfOrigin \in platformRepos /\ formattedVersion \notin releases
                          /\ "createRelease" \in Implemented(platform)) :
       /\ log' = Append(log, Call("createRelease", MAIN_BRANCH, formattedVersion, ok))
       /\ IF ok
          THEN releases' = releases \cup {formattedVersion} /\ Goto("defaultBranch")
          ELSE ReleaseCatch /\ UNCHANGED releases
  /\ releaseOptions' = [releaseOptions EXCEPT
                          !.generateReleaseNotes = generateReleaseNotes(releaseOptions.body),
                          !.called = TRUE]
  /\ UNCHANGED <<repoVars, platformRepos, defaultBranch, ownerSaved, currentVersion,
                 partialTag, lastInit, returned, platform, savedPlatform, flow, http, commits, smart,
                 op, args, developBranch, start, opCount>>

\* step 8: ensureMainAsDefaultBranch: getRemotes (repository name, falling
\* back to the directory name) and platform.updateDefaultBranch; every error
\* is caught
PublishDefaultBranch ==
  /\ op = "publish" /\ pc = "defaultBranch"
  /\ IF ~ownerSaved
     THEN UNCHANGED <<log, defaultBranch>>
     ELSE \E okRemotes \in Outcomes(isRepo) :
            LET repoName == IF okRemotes /\ origin # NoRemote THEN RepoOfOrigin ELSE CwdName
            IN  \E ok \in Outcomes(repoName \in platformRepos /\ MAIN_BRANCH \in remoteBranches) :
                  /\ log' = log \o <<Call("getRemotes", NoBranch, NoVersion, okRemotes),
                                     Call("updateDefaultBranch", MAIN_BRANCH, NoVersion, ok)>>
                  /\ defaultBranch' = IF ok THEN MAIN_BRANCH ELSE defaultBranch
  /\ Goto("deleteLocal")
  /\ UNCHANGED <<repoVars, platformRepos, releases, ownerSaved, currentVersion,
                 partialTag, lastInit, returned, extVars, op, args, developBranch, start, opCount>>

\* step 9a: branchManager.deleteBranch -> gitClient.deleteLocalBranch, whose
\* error is caught; `git branch -d` refuses the current branch
PublishDeleteLocal ==
  /\ op = "publish" /\ pc = "deleteLocal"
  /\ \E ok \in Outcomes(developBranch \in localBranches /\ developBranch # current) :
       /\ log' = Append(log, Call("deleteLocalBranch", developBranch, NoVersion, ok))
       /\ localBranches' = IF ok THEN localBranches \ {developBranch} ELSE localBranches
  /\ Goto("deleteRemote")
  /\ UNCHANGED <<isRepo, origin, remoteBranches, current, dirty, conflicted, tags,
                 remoteTags, platformVars, ownerSaved, currentVersion, partialTag, lastInit, returned, extVars,
                 op, args, developBranch, start, opCount>>

\* deleteBranch that throws the error of deleteRemoteBranch
PublishDeleteRemote_Rethrows ==
  /\ op = "publish" /\ pc = "deleteRemote"
  /\ \E ok \in Outcomes(origin # NoRemote /\ developBranch \in remoteBranches
                         /\ developBranch # defaultBranch) :
       /\ log' = Append(log, Call("deleteRemoteBranch", developBranch, NoVersion, ok))
       /\ remoteBranches' = IF ok THEN remoteBranches \ {developBranch} ELSE remoteBranches
       /\ IF ok THEN Return ELSE Throw("RepositoryError")
  /\ partialTag' = NoVersion
  /\ UNCHANGED <<isRepo, origin, localBranches, current, dirty, conflicted, tags,
                 remoteTags, platformVars, ownerSaved, currentVersion, lastInit, returned, extVars,
                 op, args, developBranch, start, opCount>>

\* step 9b: branchManager.deleteBranch -> gitClient.deleteRemoteBranch, whose
\* error is caught; the platform rejects the deletion of its default branch
PublishDeleteRemote ==
  /\ op = "publish" /\ pc = "deleteRemote"
  /\ \E ok \in Outcomes(origin # NoRemote /\ developBranch \in remoteBranches
                         /\ developBranch # defaultBranch) :
       /\ log' = Append(log, Call("deleteRemoteBranch", developBranch, NoVersion, ok))
       /\ remoteBranches' = IF ok THEN remoteBranches \ {developBranch} ELSE remoteBranches
  /\ Return
  /\ partialTag' = NoVersion
  /\ UNCHANGED <<isRepo, origin, localBranches, current, dirty, conflicted, tags,
                 remoteTags, platformVars, ownerSaved, currentVersion, lastInit, returned, extVars,
                 op, args, developBranch, start, opCount>>

\* the steps of a publish() that was invoked
PublishSteps ==
  \/ PublishResolveVersion
  \/ PublishLocate
  \/ PublishCheckoutDevelop
  \/ PublishCheckoutRemoteDevelop
  \/ PublishCheckoutMain
  \/ PublishMerge
  \/ PublishCreateTag
  \/ PublishPushTags
  \/ PublishPushMain
  \/ PublishReleaseInfo
  \/ PublishLatestRelease
  \/ PublishReleaseBody
  \/ PublishCreateRelease
  \/ PublishDefaultBranch
  \/ PublishDeleteLocal
  \/ PublishDeleteRemote

Publish ==
  \/ \E version \in ExplicitVersions \cup {NoVersion}, type \in VersionTypes \cup {"none"} :
        PublishStart(version, type)
  \/ PublishSteps

(***************************************************************************)
(* GitFlow.commit(options)                                                 *)
(***************************************************************************)
CommitStart ==
  /\ Begin("commit", NoArgs)
  /\ Goto("check")
  /\ UNCHANGED <<repoVars, platformVars, ownerSaved, currentVersion, partialTag, lastInit, returned, extVars>>

\* commit() without the hasConflicts check of its step 2
CommitCheck_NoConflictCheck ==
  /\ op = "commit" /\ pc = "check"
  /\ \E ok \in Outcomes(isRepo) :
       IF ~ok
       THEN /\ log' = Append(log, Call("stashList", NoBranch, NoVersion, FALSE))
            /\ Throw("RepositoryError")
       ELSE /\ log' = log \o <<Call("stashList", NoBranch, NoVersion, TRUE),
                               Call("status", NoBranch, NoVersion, TRUE)>>
            /\ Goto(IF dirty THEN "stage" ELSE "develop")
  /\ UNCHANGED <<repoVars, platformVars, ownerSaved, currentVersion, partialTag, lastInit, returned, extVars,
                 op, args, developBranch, start, opCount>>

\* steps 1-3a: stashList, hasConflicts, hasUncommittedChanges
CommitCheck ==
  /\ op = "commit" /\ pc = "check"
  /\ \E ok \in Outcomes(isRepo) :
       IF ~ok
       THEN /\ log' = Append(log, Call("stashList", NoBranch, NoVersion, FALSE))
            /\ Throw("RepositoryError")
       ELSE IF conflicted
       THEN /\ log' = log \o <<Call("stashList", NoBranch, NoVersion, TRUE),
                               Call("status", NoBranch, NoVersion, TRUE)>>
            /\ Throw("ConflictsExist")
       ELSE /\ log' = log \o <<Call("stashList", NoBranch, NoVersion, TRUE),
                               Call("status", NoBranch, NoVersion, TRUE),
                               Call("status", NoBranch, NoVersion, TRUE)>>
            /\ Goto(IF dirty THEN "stage" ELSE "develop")
  /\ UNCHANGED <<repoVars, platformVars, ownerSaved, currentVersion, partialTag, lastInit, returned, extVars,
                 op, args, developBranch, start, opCount>>

\* step 3b: gitClient.add('.') and gitClient.commit(message); the first
\* commit of a repository creates its branch
CommitStage ==
  /\ op = "commit" /\ pc = "stage"
  /\ \E okAdd \in Outcomes(isRepo), okCommit \in Outcomes(isRepo) :
       /\ ~okAdd => ~okCommit
       /\ log' = IF okAdd
                 THEN log \o <<Call("add", NoBranch, NoVersion, TRUE),
                               Call("commit", NoBranch, NoVersion, okCommit)>>
                 ELSE Append(log, Call("add", NoBranch, NoVersion, FALSE))
       /\ IF okCommit
          THEN /\ dirty' = FALSE
               /\ localBranches' = localBranches \cup {current}
               /\ Goto("develop")
          ELSE Throw("RepositoryError") /\ UNCHANGED <<dirty, localBranches>>
  /\ UNCHANGED <<isRepo, origin, remoteBranches, current, conflicted, tags,
                 remoteTags, platformVars, ownerSaved, currentVersion, partialTag, lastInit, returned, extVars,
                 op, args, developBranch, start, opCount>>

\* branches.all of GitClient.getBranches(): local names and remotes/origin/<name>
BranchesAll == {Chars(b) : b \in localBranches} \cup {RemoteRef(b) : b \in remoteBranches}

\* BranchManager.branchExists(name)
branchExists(name) == Chars(name) \in BranchesAll

\* step 4: branchManager.createDevelopBranch()
CommitDevelop ==
  /\ op = "commit" /\ pc = "develop"
  /\ \E okRead \in Outcomes(isRepo) :
       IF ~okRead
       THEN /\ log' = Append(log, Call("getBranches", NoBranch, NoVersion, FALSE))
            /\ Throw("RepositoryError")
            /\ UNCHANGED <<current, localBranches, developBranch>>
       ELSE LET exists == branchExists(DEVELOP_BRANCH)
                call == IF exists THEN "checkout" ELSE "checkoutNewBranch"
            IN  \E ok \in Outcomes(IF exists THEN CanCheckout(DEVELOP_BRANCH)
                                             ELSE DEVELOP_BRANCH \notin localBranches) :
                  /\ log' = log \o <<Call("getBranches", NoBranch, NoVersion, TRUE),
                                     Call(call, DEVELOP_BRANCH, NoVersion, ok)>>
                  /\ IF ok
                     THEN /\ current' = DEVELOP_BRANCH
                          /\ localBranches' = localBranches \cup {DEVELOP_BRANCH}
                          /\ developBranch' = DEVELOP_BRANCH
                          /\ Goto("sync")
                     ELSE /\ Throw("RepositoryError")
                          /\ UNCHANGED <<current, localBranches, developBranch>>
  /\ UNCHANGED <<isRepo, origin, remoteBranches, dirty, conflicted, tags,
                 remoteTags, platformVars, ownerSaved, currentVersion, partialTag, lastInit, returned, extVars,
                 op, args, start, opCount>>

\* step 5 without its try block: an error of the sync aborts commit()
CommitSync_Rethrows ==
  /\ op = "commit" /\ pc = "sync"
  /\ \E okCheckout \in Outcomes(CanCheckout(MAIN_BRANCH)) :
       IF ~okCheckout
       THEN /\ log' = Append(log, Call("checkout", MAIN_BRANCH, NoVersion, FALSE))
            /\ Throw("RepositoryError")
            /\ UNCHANGED <<current, localBranches, dirty, conflicted>>
       ELSE /\ current' = MAIN_BRANCH
            /\ localBranches' = localBranches \cup {MAIN_BRANCH}
            /\ \E okPull \in Outcomes(origin # NoRemote /\ MAIN_BRANCH \in remoteBranches) :
                 IF ~okPull
                 THEN /\ log' = log \o
                             <<Call("checkout", MAIN_BRANCH, NoVersion, TRUE),
                               CallOn("pull", MAIN_BRANCH, NoVersion, MAIN_BRANCH, FALSE)>>
                      /\ Throw("RepositoryError")
                      /\ UNCHANGED <<dirty, conflicted>>
                 ELSE \E okMerge \in Outcomes(TRUE) :
                        /\ log' = log \o
                             <<Call("checkout", MAIN_BRANCH, NoVersion, TRUE),
                               CallOn("pull", MAIN_BRANCH, NoVersion, MAIN_BRANCH, TRUE),
                               CallOn("getCurrentBranch", NoBranch, NoVersion, MAIN_BRANCH, TRUE),
                               CallOn("merge --no-ff", MAIN_BRANCH, NoVersion, MAIN_BRANCH, okMerge)>>
                        /\ IF okMerge THEN Goto("push") ELSE Throw("RepositoryError")
                        /\ UNCHANGED <<dirty, conflicted>>
  /\ UNCHANGED <<isRepo, origin, remoteBranches, tags, remoteTags, platformVars, ownerSaved,
                 currentVersion, partialTag, lastInit, returned, extVars, op, args, developBranch,
                 start, opCount>>

\* step 5: remoteManager.syncMainBranch(main) (checkout + pull) and
\* branchManager.mergeFromMain(['--no-ff']) inside one try block whose
\* catch only logs a warning
CommitSync ==
  /\ op = "commit" /\ pc = "sync"
  /\ \E okCheckout \in Outcomes(CanCheckout(MAIN_BRANCH)) :
       IF ~okCheckout
       THEN /\ log' = Append(log, Call("checkout", MAIN_BRANCH, NoVersion, FALSE))
            /\ UNCHANGED <<current, localBranches, dirty, conflicted>>
       ELSE /\ current' = MAIN_BRANCH
            /\ localBranches' = localBranches \cup {MAIN_BRANCH}
            /\ \E okPull \in Outcomes(origin # NoRemote /\ MAIN_BRANCH \in remoteBranches) :
                 IF ~okPull
                 THEN \E conflict \in BOOLEAN :
                        /\ conflict => (origin # NoRemote /\ MAIN_BRANCH \in remoteBranches)
                        /\ log' = log \o
                             <<Call("checkout", MAIN_BRANCH, NoVersion, TRUE),
                               CallOn("pull", MAIN_BRANCH, NoVersion, MAIN_BRANCH, FALSE)>>
                        /\ conflicted' = (conflicted \/ conflict)
                        /\ dirty' = (dirty \/ conflict)
                 ELSE \E okMerge \in Outcomes(TRUE) :
                        /\ log' = log \o
                             <<Call("checkout", MAIN_BRANCH, NoVersion, TRUE),
                               CallOn("pull", MAIN_BRANCH, NoVersion, MAIN_BRANCH, TRUE),
                               CallOn("getCurrentBranch", NoBranch, NoVersion, MAIN_BRANCH, TRUE),
                               CallOn("merge --no-ff", MAIN_BRANCH, NoVersion, MAIN_BRANCH, okMerge)>>
                        /\ UNCHANGED <<dirty, conflicted>>
  /\ Goto("push")
  /\ UNCHANGED <<isRepo, origin, remoteBranches, tags, remoteTags, platformVars, ownerSaved,
                 currentVersion, partialTag, lastInit, returned, extVars, op, args, developBranch, start, opCount>>

\* pushAndSetUpstream that pushes the tags along with the branch
CommitPush_WithTags ==
  /\ op = "commit" /\ pc = "push"
  /\ \E ok \in Outcomes(origin # NoRemote /\ developBranch \in localBranches) :
       /\ log' = log \o <<Call("push --set-upstream", developBranch, NoVersion, ok),
                           Call("pushTags", NoBranch, NoVersion, ok)>>
       /\ IF ok
          THEN /\ remoteBranches' = remoteBranches \cup {developBranch}
               /\ remoteTags' = remoteTags \cup tags
               /\ Return
          ELSE Throw("RepositoryError") /\ UNCHANGED <<remoteBranches, remoteTags>>
  /\ UNCHANGED <<isRepo, origin, localBranches, current, dirty, conflicted, tags,
                 platformVars, ownerSaved, currentVersion, partialTag, lastInit, returned, extVars,
                 op, args, developBranch, start, opCount>>

\* step 6: remoteManager.pushAndSetUpstream(developBranch)
CommitPush ==
  /\ op = "commit" /\ pc = "push"
  /\ \E ok \in Outcomes(origin # NoRemote /\ developBranch \in localBranches) :
       /\ log' = Append(log, Call("push --set-upstream", developBranch, NoVersion, ok))
       /\ IF ok
          THEN remoteBranches' = remoteBranches \cup {developBranch} /\ Return
          ELSE Throw("RepositoryError") /\ UNCHANGED remoteBranches
  /\ UNCHANGED <<isRepo, origin, localBranches, current, dirty, conflicted, tags,
                 remoteTags, platformVars, ownerSaved, currentVersion, partialTag, lastInit, returned, extVars,
                 op, args, developBranch, start, opCount>>

\* the steps of a commit() that was invoked
CommitSteps ==
  \/ CommitCheck
  \/ CommitStage
  \/ CommitDevelop
  \/ CommitSync
  \/ CommitPush

Commit ==
  \/ CommitStart
  \/ CommitSteps

(***************************************************************************)
(* GitFlow.initRepository(options)                                         *)
(***************************************************************************)
InitRepositoryStart(repoName, repoType) ==
  /\ Begin("initRepository", [NoArgs EXCEPT !.repoName = repoName, !.repoType = repoType])
  /\ Goto("config")
  /\ UNCHANGED <<repoVars, platformVars, ownerSaved, currentVersion, partialTag, lastInit, returned, extVars>>

\* checkExistingRepo (a warning only) and the three writeConfig calls, the
\* first of which names the platform of the client
InitRepositoryConfig ==
  /\ op = "initRepository" /\ pc = "config"
  /\ \E okRemotes \in Outcomes(TRUE), okWrite \in Outcomes(TRUE) :
       /\ ~isRepo => okRemotes
       /\ ~okRemotes => ~okWrite
       /\ log' = log \o (IF isRepo THEN <<Call("getRemotes", NoBranch, NoVersion, okRemotes)>>
                                   ELSE <<>>)
                     \o (IF okRemotes THEN <<Call("writeConfig", NoBranch, NoVersion, okWrite)>>
                                      ELSE <<>>)
       /\ IF okWrite
          THEN ownerSaved' = TRUE /\ savedPlatform' = platform /\ Goto("remote")
          ELSE /\ Throw(IF okRemotes THEN "ConfigurationError" ELSE "RepositoryError")
               /\ UNCHANGED ownerSaved
               \* ~/.git_platform is the first of the three files written
               /\ savedPlatform' \in IF okRemotes THEN {savedPlatform, platform}
                                      ELSE {savedPlatform}
  /\ UNCHANGED <<repoVars, platformVars, currentVersion, partialTag, lastInit, returned,
                 platform, flow, http, commits, smart, releaseOptions,
                 op, args, developBranch, start, opCount>>

\* initRemote without the repoExists lookup: the repository is always created
InitRepositoryRemote_AlwaysCreates ==
  /\ op = "initRepository" /\ pc = "remote"
  /\ LET call == IF args.repoType = "user" THEN "createUserRepo" ELSE "createOrgRepo"
     IN  \E ok \in Outcomes(args.repoName \notin platformRepos) :
           /\ log' = Append(log, Call(call, args.repoName, NoVersion, ok))
           /\ IF ok
              THEN /\ platformRepos' = platformRepos \cup {args.repoName}
                   /\ Goto("addRemote")
              ELSE Throw("PlatformError") /\ UNCHANGED platformRepos
  /\ UNCHANGED <<repoVars, releases, defaultBranch, ownerSaved, currentVersion, partialTag,
                 lastInit, returned, extVars, op, args, developBranch, start, opCount>>

\* RemoteManager.initRemote: repoExists, then getRepo or createUserRepo /
\* createOrgRepo
InitRepositoryRemote ==
  /\ op = "initRepository" /\ pc = "remote"
  /\ \E okExists \in Outcomes(TRUE) :
       IF ~okExists
       THEN /\ log' = Append(log, Call("repoExists", args.repoName, NoVersion, FALSE))
            /\ Throw("PlatformError")
            /\ UNCHANGED platformRepos
       ELSE LET exists == args.repoName \in platformRepos
                call == IF exists THEN "getRepo"
                        ELSE IF args.repoType = "user" THEN "createUserRepo"
                        ELSE "createOrgRepo"
            IN  \E ok \in Outcomes(TRUE) :
                  /\ log' = log \o <<Call("repoExists", args.repoName, NoVersion, TRUE),
                                     Call(call, args.repoName, NoVersion, ok)>>
                  /\ IF ok
                     THEN /\ platformRepos' = platformRepos \cup {args.repoName}
                          /\ Goto("addRemote")
                     ELSE Throw("PlatformError") /\ UNCHANGED platformRepos
  /\ UNCHANGED <<repoVars, releases, defaultBranch, ownerSaved, currentVersion, partialTag,
                 lastInit, returned, extVars, op, args, developBranch, start, opCount>>

\* RemoteManager.addRemoteIfNotExists(url), as a step of the operation o at
\* label l, continuing at label next: nothing outside a repository, nothing
\* when origin exists, else gitClient.addRemote
addRemoteIfNotExists(url, next) ==
  IF ~isRepo
  THEN /\ Goto(next)
       /\ UNCHANGED <<log, origin>>
  ELSE \E okRemotes \in Outcomes(TRUE) :
         IF ~okRemotes
         THEN /\ log' = Append(log, Call("getRemotes", NoBranch, NoVersion, FALSE))
              /\ Throw("RepositoryError")
              /\ UNCHANGED origin
         ELSE IF origin # NoRemote
         THEN /\ log' = Append(log, Call("getRemotes", NoBranch, NoVersion, TRUE))
              /\ Goto(next)
              /\ UNCHANGED origin
         ELSE \E ok \in Outcomes(TRUE) :
                /\ log' = log \o <<Call("getRemotes", NoBranch, NoVersion, TRUE),
                                   Call("addRemote", url, NoVersion, ok)>>
                /\ IF ok
                   THEN origin' = url /\ Goto(next)
                   ELSE Throw("RepositoryError") /\ UNCHANGED origin

\* the end of initRemote
InitRepositoryAddRemote ==
  /\ op = "initRepository" /\ pc = "addRemote"
  /\ addRemoteIfNotExists(args.repoName, "files")
  /\ UNCHANGED <<isRepo, localBranches, remoteBranches, current, dirty, conflicted, tags,
                 remoteTags, platformVars, ownerSaved, currentVersion, partialTag, lastInit, returned, extVars,
                 op, args, developBranch, start, opCount>>

\* createGitignoreIfNotExists and createReleaseYmlIfNotExists: a file that
\* is missing is written into the working directory
InitRepositoryFiles ==
  /\ op = "initRepository" /\ pc = "files"
  /\ \E written \in BOOLEAN : dirty' = (dirty \/ written)
  /\ Return
  /\ lastInit' = [repoName |-> args.repoName, repoType |-> args.repoType]
  /\ UNCHANGED <<returned, extVars>>
  /\ UNCHANGED <<isRepo, origin, localBranches, remoteBranches, current, conflicted, tags,
                 remoteTags, platformVars, ownerSaved, currentVersion, partialTag,
                 op, args, developBranch, log, start, opCount>>

\* the steps of an initRepository() that was invoked
InitRepositorySteps ==
  \/ InitRepositoryConfig
  \/ InitRepositoryRemote
  \/ InitRepositoryAddRemote
  \/ InitRepositoryFiles

InitRepository ==
  \/ \E repoName \in RepoNames, repoType \in RepoTypes : InitRepositoryStart(repoName, repoType)
  \/ InitRepositorySteps

(***************************************************************************)
(* GitFlow.initGit(remoteUrl)                                              *)
(***************************************************************************)
InitGitStart(remoteUrl) ==
  /\ Begin("initGit", [NoArgs EXCEPT !.repoName = remoteUrl])
  /\ Goto("init")
  /\ UNCHANGED <<repoVars, platformVars, ownerSaved, currentVersion, partialTag, lastInit, returned, extVars>>

\* steps 1-2: isRepo and gitClient.init(); the branch of a new repository is
\* the one init.defaultBranch names
InitGitInit ==
  /\ op = "initGit" /\ pc = "init"
  /\ IF isRepo
     THEN Goto("addRemote") /\ UNCHANGED <<log, isRepo, current>>
     ELSE \E ok \in Outcomes(TRUE) :
            /\ log' = Append(log, Call("init", NoBranch, NoVersion, ok))
            /\ IF ok
               THEN /\ isRepo' = TRUE
                    /\ current' \in {MAIN_BRANCH, MASTER_BRANCH}
                    /\ Goto("addRemote")
               ELSE Throw("RepositoryError") /\ UNCHANGED <<isRepo, current>>
  /\ UNCHANGED <<origin, localBranches, remoteBranches, dirty, conflicted, tags,
                 remoteTags, platformVars, ownerSaved, currentVersion, partialTag, lastInit, returned, extVars,
                 op, args, developBranch, start, opCount>>

\* step 3: remoteManager.addRemoteIfNotExists(remoteUrl)
InitGitAddRemote ==
  /\ op = "initGit" /\ pc = "addRemote"
  /\ addRemoteIfNotExists(args.repoName, "pull")
  /\ UNCHANGED <<isRepo, localBranches, remoteBranches, current, dirty, conflicted, tags,
                 remoteTags, platformVars, ownerSaved, currentVersion, partialTag, lastInit, returned, extVars,
                 op, args, developBranch, start, opCount>>

\* s with the prefix p removed, when it starts with p
StripPrefix(s, p) == IF StartsWith(s, p) THEN SubSeq(s, Len(p) + 1, Len(s)) ELSE s

\* branches.remote.map(b => b.replace(/^remotes\//, '').replace(/^origin\//, ''))
RemoteBranchNames ==
  {StripPrefix(StripPrefix(RemoteRef(b), Chars("remotes/")), Chars("origin/")) :
     b \in remoteBranches}

\* initGit that creates the initial commit whether or not the working tree
\* has uncommitted changes
InitGitPull_AlwaysCommits ==
  /\ op = "initGit" /\ pc = "pull"
  /\ LET hasRemoteMain == Chars(MAIN_BRANCH) \in RemoteBranchNames
         hasRemoteMaster == Chars(MASTER_BRANCH) \in RemoteBranchNames
         targetBranch == IF hasRemoteMain THEN MAIN_BRANCH ELSE MASTER_BRANCH
         otherwise == Goto("initialCommit")
     IN  \E okFetch \in Outcomes(origin # NoRemote /\ origin \in platformRepos) :
           IF ~okFetch
           THEN /\ log' = log \o <<Call("status", NoBranch, NoVersion, TRUE),
                                   Call("fetch", NoBranch, NoVersion, FALSE)>>
                /\ otherwise
                /\ UNCHANGED <<current, localBranches>>
           ELSE IF ~(hasRemoteMain \/ hasRemoteMaster)
           THEN /\ log' = log \o <<Call("status", NoBranch, NoVersion, TRUE),
                                   Call("fetch", NoBranch, NoVersion, TRUE),
                                   Call("getBranches", NoBranch, NoVersion, TRUE)>>
                /\ otherwise
                /\ UNCHANGED <<current, localBranches>>
           ELSE \E okCheckout \in Outcomes(CanCheckout(targetBranch)), okPull \in Outcomes(TRUE) :
                  /\ ~okCheckout => ~okPull
                  /\ log' = log \o <<Call("status", NoBranch, NoVersion, TRUE),
                                     Call("fetch", NoBranch, NoVersion, TRUE),
                                     Call("getBranches", NoBranch, NoVersion, TRUE),
                                     Call("checkout", targetBranch, NoVersion, okCheckout)>>
                                \o (IF okCheckout
                                    THEN <<CallOn("pull", targetBranch, NoVersion, targetBranch, okPull)>>
                                    ELSE <<Call("checkoutFromRemote", targetBranch, NoVersion, FALSE)>>)
                  /\ IF okCheckout
                     THEN /\ current' = targetBranch
                          /\ localBranches' = localBranches \cup {targetBranch}
                     ELSE UNCHANGED <<current, localBranches>>
                  /\ IF okPull THEN Return ELSE otherwise
  /\ UNCHANGED <<isRepo, origin, remoteBranches, dirty, conflicted, tags,
                 remoteTags, platformVars, ownerSaved, currentVersion, partialTag, lastInit, returned, extVars,
                 op, args, developBranch, start, opCount>>

\* steps 4-5: hasUncommittedChanges, fetch, getBranches, then checkout (or
\* checkoutFromRemote) and pull of the remote main / master branch.  With
\* uncommitted changes an error, or a remote without main and master, leads
\* to the initial commit; without them the error is ignored.
InitGitPull ==
  /\ op = "initGit" /\ pc = "pull"
  /\ LET hasRemoteMain == Chars(MAIN_BRANCH) \in RemoteBranchNames
         hasRemoteMaster == Chars(MASTER_BRANCH) \in RemoteBranchNames
         targetBranch == IF hasRemoteMain THEN MAIN_BRANCH ELSE MASTER_BRANCH
         otherwise == IF dirty THEN Goto("initialCommit") ELSE Return
     IN  \E okFetch \in Outcomes(origin # NoRemote /\ origin \in platformRepos) :
           IF ~okFetch
           THEN /\ log' = log \o <<Call("status", NoBranch, NoVersion, TRUE),
                                   Call("fetch", NoBranch, NoVersion, FALSE)>>
                /\ otherwise
                /\ UNCHANGED <<current, localBranches>>
           ELSE IF ~(hasRemoteMain \/ hasRemoteMaster)
           THEN /\ log' = log \o <<Call("status", NoBranch, NoVersion, TRUE),
                                   Call("fetch", NoBranch, NoVersion, TRUE),
                                   Call("getBranches", NoBranch, NoVersion, TRUE)>>
                /\ otherwise
                /\ UNCHANGED <<current, localBranches>>
           ELSE \E okCheckout \in Outcomes(CanCheckout(targetBranch)), okPull \in Outcomes(TRUE) :
                  /\ ~okCheckout => ~okPull
                  /\ log' = log \o <<Call("status", NoBranch, NoVersion, TRUE),
                                     Call("fetch", NoBranch, NoVersion, TRUE),
                                     Call("getBranches", NoBranch, NoVersion, TRUE),
                                     Call("checkout", targetBranch, NoVersion, okCheckout)>>
                                \o (IF okCheckout
                                    THEN <<CallOn("pull", targetBranch, NoVersion, targetBranch, okPull)>>
                                    ELSE <<Call("checkoutFromRemote", targetBranch, NoVersion, FALSE)>>)
                  /\ IF okCheckout
                     THEN /\ current' = targetBranch
                          /\ localBranches' = localBranches \cup {targetBranch}
                     ELSE UNCHANGED <<current, localBranches>>
                  /\ IF okPull THEN Return ELSE otherwise
  /\ UNCHANGED <<isRepo, origin, remoteBranches, dirty, conflicted, tags,
                 remoteTags, platformVars, ownerSaved, currentVersion, partialTag, lastInit, returned, extVars,
                 op, args, developBranch, start, opCount>>

\* createInitialCommit: add, commit, push(main); every error is thrown
InitGitInitialCommit ==
  /\ op = "initGit" /\ pc = "initialCommit"
  /\ \E okAdd \in Outcomes(isRepo), okCommit \in Outcomes(isRepo) :
       /\ ~okAdd => ~okCommit
       /\ LET born == IF okCommit THEN localBranches \cup {current} ELSE localBranches
          IN  \E okPush \in Outcomes(okCommit /\ origin # NoRemote /\ MAIN_BRANCH \in born) :
                /\ log' = log \o <<Call("add", NoBranch, NoVersion, okAdd)>>
                              \o (IF okAdd THEN <<Call("commit", NoBranch, NoVersion, okCommit)>>
                                           ELSE <<>>)
                              \o (IF okCommit THEN <<Call("push", MAIN_BRANCH, NoVersion, okPush)>>
                                              ELSE <<>>)
                /\ localBranches' = born
                /\ dirty' = (dirty /\ ~okCommit)
                /\ remoteBranches' = IF okPush THEN remoteBranches \cup {MAIN_BRANCH}
                                     ELSE remoteBranches
                /\ IF okPush THEN Return ELSE Throw("RepositoryError")
  /\ UNCHANGED <<isRepo, origin, current, conflicted, tags,
                 remoteTags, platformVars, ownerSaved, currentVersion, partialTag, lastInit, returned, extVars,
                 op, args, developBranch, start, opCount>>

\* the steps of an initGit() that was invoked
InitGitSteps ==
  \/ InitGitInit
  \/ InitGitAddRemote
  \/ InitGitPull
  \/ InitGitInitialCommit

InitGit ==
  \/ \E remoteUrl \in RepoNames : InitGitStart(remoteUrl)
  \/ InitGitSteps

(***************************************************************************)
(* Callers of the operations: GitFlow.fullFlow and the handlers of the     *)
(* git:init, git:commit and git:publish commands                           *)
(***************************************************************************)
\* everything but flow and platform
calledVars == <<repoVars, platformVars, ownerSaved, currentVersion, ctlVars, partialTag,
                lastInit, returned, savedPlatform, http, commits, smart, releaseOptions>>

\* the caller c is entered; its operations are counted from opCount on
Enter(c) ==
  /\ pc = "idle"
  /\ flow.at # "running"
  /\ flow' = [caller |-> c, at |-> "running", base |-> opCount]

\* the caller c runs and has started n operations, the last of which returned
Ran(c, n) ==
  /\ flow.caller = c /\ flow.at = "running"
  /\ pc = "idle"
  /\ opCount = flow.base + n
  /\ n > 0 => result = "ok"

\* the caller returns after its n-th operation returned
Leave(c, n) ==
  /\ Ran(c, n)
  /\ flow' = [flow EXCEPT !.at = "returned"]
  /\ UNCHANGED <<calledVars, platform>>

\* an operation of the caller threw: the catch block logs and rethrows
Rethrow(c) ==
  /\ flow.caller = c /\ flow.at = "running"
  /\ pc = "idle" /\ opCount > flow.base /\ result # "ok"
  /\ flow' = [flow EXCEPT !.at = "thrown"]
  /\ UNCHANGED <<calledVars, platform>>

\* fullFlow(repoOptions, commitOptions) is called
FullFlowStart ==
  /\ Enter("fullFlow")
  /\ UNCHANGED <<calledVars, platform>>

\* const repoInfo = await this.initRepository(repoOptions)
FullFlowInitRepository ==
  /\ Ran("fullFlow", 0)
  /\ \E repoName \in RepoNames, repoType \in RepoTypes : InitRepositoryStart(repoName, repoType)

\* await this.initGit(repoInfo.cloneUrl)
FullFlowInitGit ==
  /\ Ran("fullFlow", 1)
  /\ InitGitStart(args.repoName)

\* the end of the try block
FullFlowReturn == Leave("fullFlow", 2)

FullFlowThrow == Rethrow("fullFlow")

FullFlow ==
  \/ FullFlowStart
  \/ FullFlowInitRepository
  \/ FullFlowInitGit
  \/ FullFlowReturn
  \/ FullFlowThrow
  \/ InitRepositorySteps
  \/ InitGitSteps

VersionManagerOps ==
  \/ \E version \in SetVersions : setCurrentVersion(version)
  \/ \E type \in VersionTypes : incrementVersion(type)
  \/ \E tagList \in TagScenes : latestVersionFromTags(tagList)
  \/ \E tagList \in TagScenes : suggestNextVersion(tagList)

\* the four operations of GitFlow
Next ==
  \/ InitRepository
  \/ InitGit
  \/ Commit
  \/ Publish

Spec == Init /\ [][Next]_vars

\* createPlatformClient(platform): the client the handler builds its GitFlow with
createPlatformClient(selectedPlatform) ==
  platform' = IF selectedPlatform = GITHUB THEN GITHUB ELSE GITEE

\* handleGitInit: the confirmation, createPlatformClient(options.platform),
\* new GitFlow(platform), getCurrentUser and getUserOrgs
handleGitInitStart ==
  /\ pc = "idle" /\ flow.at # "running"
  /\ \E confirm \in BOOLEAN, selectedPlatform \in Platforms, okUser \in BOOLEAN :
       IF ~confirm
       THEN /\ flow' = [caller |-> "git:init", at |-> "returned", base |-> opCount]
            /\ UNCHANGED platform
       ELSE /\ createPlatformClient(selectedPlatform)
            /\ flow' = [caller |-> "git:init", at |-> IF okUser THEN "running" ELSE "thrown",
                        base |-> opCount]
  /\ UNCHANGED calledVars

\* const repoInfo = await gitFlow.initRepository({repoName, repoType, owner, private})
handleGitInitRepository ==
  /\ Ran("git:init", 0)
  /\ \E repoName \in RepoNames, repoType \in RepoTypes : InitRepositoryStart(repoName, repoType)

\* await gitFlow.initGit(repoInfo.cloneUrl)
handleGitInitGit ==
  /\ Ran("git:init", 1)
  /\ InitGitStart(args.repoName)

handleGitInit ==
  \/ handleGitInitStart
  \/ handleGitInitRepository
  \/ handleGitInitGit
  \/ Leave("git:init", 2)
  \/ Rethrow("git:init")

\* handleGitCommit: createPlatformClient(GitPlatform.GITHUB), new GitFlow(platform)
handleGitCommitStart ==
  /\ Enter("git:commit")
  /\ createPlatformClient(GITHUB)
  /\ UNCHANGED calledVars

\* const branch = await gitFlow.commit({message})
handleGitCommitCommit ==
  /\ Ran("git:commit", 0)
  /\ CommitStart

handleGitCommit ==
  \/ handleGitCommitStart
  \/ handleGitCommitCommit
  \/ Leave("git:commit", 1)
  \/ Rethrow("git:commit")

\* handleGitPublish: createPlatformClient(GitPlatform.GITHUB), new GitFlow(platform)
handleGitPublishStart ==
  /\ Enter("git:publish")
  /\ createPlatformClient(GITHUB)
  /\ UNCHANGED calledVars

\* await gitFlow.publish({version, versionType}): the version type is asked
\* for when no version is given
handleGitPublishPublish ==
  /\ Ran("git:publish", 0)
  /\ \/ \E version \in ExplicitVersions : PublishStart(version, "none")
     \/ \E type \in VersionTypes : PublishStart(NoVersion, type)

handleGitPublish ==
  \/ handleGitPublishStart
  \/ handleGitPublishPublish
  \/ Leave("git:publish", 1)
  \/ Rethrow("git:publish")

\* the git commands of the CLI
Cli ==
  \/ handleGitInit
  \/ handleGitCommit
  \/ handleGitPublish
  \/ InitRepositorySteps
  \/ InitGitSteps
  \/ CommitSteps
  \/ PublishSteps

\* the working directory driven through the git commands of the CLI
SpecCli == Init /\ [][Cli]_vars

(***************************************************************************)
(* The platform clients: GitHubPlatform (Octokit, token in the             *)
(* authorization header) and GiteePlatform (axios, token as access_token   *)
(* query parameter)                                                        *)
(***************************************************************************)
\* status of the HTTP response: success, not found, another failure
Statuses == {200, 404, 500}

\* where a request of the client carries the token
Token == IF platform = GITHUB THEN "header" ELSE "query"

\* a method of the client sends one request and maps the response
Exchange(operation, verb, auth, status, answer) ==
  /\ pc = "idle"
  /\ Len(http) < MaxOps
  /\ operation \in Implemented(platform)
  /\ http' = Append(http, [platform |-> platform, operation |-> operation, verb |-> verb,
                            auth |-> auth, status |-> status, answer |-> answer])
  /\ UNCHANGED <<repoVars, platformVars, ownerSaved, currentVersion, ctlVars, partialTag,
                 lastInit, returned, platform, savedPlatform, flow, commits, smart,
                 releaseOptions>>

\* a method that returns the mapped data and rethrows every error
Rethrown(status) == IF status = 200 THEN "value" ELSE "throw"

getCurrentUser == \E status \in Statuses : Exchange("getCurrentUser", "GET", Token, status, Rethrown(status))

getUserOrgs == \E status \in Statuses : Exchange("getUserOrgs", "GET", Token, status, Rethrown(status))

repoExists ==
  \E status \in Statuses :
    Exchange("repoExists", "GET", Token, status,
             IF status = 200 THEN "true" ELSE IF status = 404 THEN "false" ELSE "throw")

createUserRepo == \E status \in Statuses : Exchange("createUserRepo", "POST", Token, status, Rethrown(status))

createOrgRepo == \E status \in Statuses : Exchange("createOrgRepo", "POST", Token, status, Rethrown(status))

getRepo == \E status \in Statuses : Exchange("getRepo", "GET", Token, status, Rethrown(status))

deleteRepo == \E status \in Statuses : Exchange("deleteRepo", "DELETE", Token, status, Rethrown(status))

\* GiteePlatform.updateDefaultBranch passes no params to client.patch
updateDefaultBranch ==
  \E status \in Statuses :
    Exchange("updateDefaultBranch", "PATCH", IF platform = GITHUB THEN "header" ELSE "none",
             status, Rethrown(status))

createRelease == \E status \in Statuses : Exchange("createRelease", "POST", Token, status, Rethrown(status))

getLatestRelease ==
  \E status \in Statuses :
    Exchange("getLatestRelease", "GET", Token, status,
             IF status = 200 THEN "value" ELSE IF status = 404 THEN "null" ELSE "throw")

releaseExists ==
  \E status \in Statuses :
    Exchange("releaseExists", "GET", Token, status,
             IF status = 200 THEN "true" ELSE IF status = 404 THEN "false" ELSE "throw")

PlatformClient ==
  \/ getCurrentUser
  \/ getUserOrgs
  \/ repoExists
  \/ createUserRepo
  \/ createOrgRepo
  \/ getRepo
  \/ deleteRepo
  \/ updateDefaultBranch
  \/ createRelease
  \/ getLatestRelease
  \/ releaseExists

\* a GitFlow built with either client
InitAdapters ==
  /\ InitScene
  /\ releases = {}
  /\ platform \in Platforms
  /\ savedPlatform = IF ownerSaved THEN platform ELSE NoPlatform
  /\ commits = <<>>
  /\ smart = TRUE

\* a platform client driven through its methods
SpecPlatform == InitAdapters /\ [][PlatformClient]_vars

\* publish() of a GitFlow built with either client
SpecAdapters == InitAdapters /\ [][Publish]_vars

\* commits of a release range: conventional ones with and without scope, a
\* type word followed by a parenthesis that is not a scope, a breaking
\* change, and a commit that only keywords match
SampleCommits ==
  {LogCommit(Line("feat", "colon", "add X"), FALSE, {"features"}),
   LogCommit(Line("docs", "scoped", "describe Z"), FALSE, {"docs"}),
   LogCommit(Line("feat", "open", "ui) tweak"), FALSE, {}),
   LogCommit(Line("fix", "colon", "drop old api"), TRUE, {"fixes"}),
   LogCommit(Line("none", "none", "fixed crash in docs"), FALSE, {"fixes", "docs"})}

\* the log feat: add X, fix: correct Y, chore: bump deps
ExampleLog ==
  <<LogCommit(Line("feat", "colon", "add X"), FALSE, {"features"}),
    LogCommit(Line("fix", "colon", "correct Y"), FALSE, {"fixes"}),
    LogCommit(Line("chore", "colon", "bump deps"), FALSE, {})>>

\* the logs of up to MaxCommits commits, and the example
CommitLogs ==
  UNION {[1..n -> SampleCommits] : n \in 0..MaxCommits} \cup {ExampleLog}

\* a GitFlow on its develop branch, with or without an earlier release, whose
\* release range holds any of the logs
InitRelease ==
  /\ InitScene
  /\ current = "develop" /\ ~dirty /\ ownerSaved /\ defaultBranch = MAIN_BRANCH
  /\ localBranches = {"main", "develop"} /\ remoteBranches = {"main", "develop"}
  /\ tags = {Str(TRUE, V(1, 0, 0))}
  /\ releases \in {{}, tags}
  /\ platform = GITHUB
  /\ savedPlatform = GITHUB
  /\ commits \in CommitLogs
  /\ smart \in BOOLEAN

\* publish() over the release ranges
SpecRelease == InitRelease /\ [][Publish]_vars

\* one GitFlow driven through fullFlow
SpecFullFlow == Init /\ [][FullFlow]_vars

\* the VersionManager alone, driven through its public methods
SpecVersionManager == Init /\ [][VersionManagerOps]_vars

TypeOK ==
  /\ isRepo \in BOOLEAN /\ dirty \in BOOLEAN /\ conflicted \in BOOLEAN
  /\ localBranches \subseteq BranchNames /\ remoteBranches \subseteq BranchNames
  /\ origin \in RepoNames \cup {NoRemote}
  /\ platformRepos \subseteq RepoNames
  /\ InBounds(currentVersion)
  /\ opCount \in 0..MaxOps

(***************************************************************************)
(* Properties                                                              *)
(***************************************************************************)
\* positions of the log
Calls == 1..Len(log)

\* the develop pattern: `develop` or `develop/<suffix>`
DevelopRole(b) ==
  b = DEVELOP_BRANCH \/ StartsWith(Chars(b), Chars(DEVELOP_BRANCH_PREFIX))

\* the calls of publish() that change the repository or the platform
PublishMutations ==
  {"checkout", "checkoutFromRemote", "merge --no-ff", "createTag", "pushTags", "push",
   "createRelease", "updateDefaultBranch", "deleteLocalBranch", "deleteRemoteBranch"}

\* publish() was invoked outside a develop branch, with no local and no
\* remote branch in the develop role
NoDevelopAtStart ==
  /\ op = "publish"
  /\ ~DevelopRole(start.current)
  /\ \A b \in start.local \cup start.remote : ~DevelopRole(b)

\* C1: publish() invoked outside a develop branch, when no local and no
\* remote branch matches the develop pattern, issues no checkout, merge, tag
\* creation, push, release creation or branch deletion, and (its version
\* being valid and its reads succeeding) fails with NoDevelopBranch.
C1_NoDevelopBranchNoSideEffect ==
  NoDevelopAtStart =>
    /\ \A i \in Calls : log[i].call \notin PublishMutations
    /\ (pc = "idle" /\ (\A i \in Calls : log[i].ok)
          /\ SemverValid(cleanVersion(args.version)))
         => result = "NoDevelopBranch"

\* the calls of commit() that stage, commit, switch, merge or push
CommitMutations ==
  {"add", "commit", "checkout", "checkoutNewBranch", "pull", "merge --no-ff",
   "push", "push --set-upstream"}

\* C2: commit() invoked on a working tree with conflicts issues no add,
\* commit, checkout, merge or push, never succeeds, and fails with
\* ConflictsExist once hasConflicts() has been evaluated.
C2_ConflictsAbortCommit ==
  (op = "commit" /\ start.conflicted) =>
    /\ \A i \in Calls : log[i].call \notin CommitMutations
    /\ pc = "idle" => result # "ok"
    /\ (pc = "idle" /\ \E i \in Calls : log[i].call = "status") => result = "ConflictsExist"

C2_Witness ==
  /\ op = "commit" /\ start.conflicted /\ pc = "idle"
  /\ result = "ConflictsExist"
  /\ \E i \in Calls : log[i].call = "status" /\ log[i].ok

\* position of a call in the documented order of publish(), 0 for a call
\* outside that order
PublishStep(e) ==
  CASE e.call = "checkout" /\ e.branch = MAIN_BRANCH -> 1
    [] e.call = "merge --no-ff" -> 2
    [] e.call = "createTag" -> 3
    [] e.call = "pushTags" -> 4
    [] e.call = "push" -> 5
    [] e.call = "createRelease" -> 6
    [] e.call = "updateDefaultBranch" -> 7
    [] e.call = "deleteLocalBranch" -> 8
    [] e.call = "deleteRemoteBranch" -> 9
    [] OTHER -> 0

\* C3: in publish() the mutating calls are issued in the order checkout
\* main, merge --no-ff of develop, create tag, push tags, push main, create
\* release, update default branch, delete develop locally, delete develop
\* remotely; a call is issued only after every earlier step up to the push
\* of main has succeeded, and the release is created only for a tag that
\* exists and is pushed.
C3_PublishOrder ==
  op = "publish" =>
    \A j \in Calls :
      LET r == PublishStep(log[j])
      IN  /\ \A i \in 1..(j - 1) : PublishStep(log[i]) > 0 => PublishStep(log[i]) < r \/ r = 0
          /\ \A k \in 1..5 :
               k < r => \E i \in 1..(j - 1) : PublishStep(log[i]) = k /\ log[i].ok
          /\ r = 2 => log[j].branch = developBranch /\ log[j].on = MAIN_BRANCH
          /\ r = 6 => log[j].tag \in tags /\ log[j].tag \in remoteTags

C3_Witness ==
  /\ op = "publish" /\ pc = "idle" /\ result = "ok"
  /\ \A k \in 1..9 : \E i \in Calls : PublishStep(log[i]) = k /\ log[i].ok

\* C4: every merge of publish() is made on the main branch, no operation
\* issues a local or remote deletion of the main branch, and an operation
\* that started with a main branch leaves it in place.
C4_MainIsMergeTargetAndKept ==
  /\ op = "publish" =>
       \A i \in Calls : log[i].call = "merge --no-ff" => log[i].on = MAIN_BRANCH
  /\ \A i \in Calls :
       log[i].call \in {"deleteLocalBranch", "deleteRemoteBranch"} => log[i].branch # MAIN_BRANCH
  /\ MAIN_BRANCH \in start.local => MAIN_BRANCH \in localBranches
  /\ MAIN_BRANCH \in start.remote => MAIN_BRANCH \in remoteBranches

C4_Witness ==
  /\ op = "publish" /\ pc = "idle"
  /\ \E i \in Calls : log[i].call = "merge --no-ff" /\ log[i].ok /\ log[i].on = MAIN_BRANCH
  /\ \E i \in Calls : log[i].call = "deleteLocalBranch" /\ log[i].ok
  /\ \E i \in Calls : log[i].call = "deleteRemoteBranch" /\ log[i].ok
  /\ developBranch \notin localBranches \cup remoteBranches
  /\ MAIN_BRANCH \in localBranches \cap remoteBranches

\* the valid version tags the repository held when the operation started
ValidTagsAtStart == {t \in start.tags : SemverValid(cleanVersion(t))}

\* C5: every tag a publish() creates is strictly greater than every valid
\* version tag that existed when it started, and a publish() of a version
\* that is already tagged creates no tag and fails.
C5_CreatedTagsIncrease ==
  op = "publish" =>
    /\ \A i \in Calls :
         (log[i].call = "createTag" /\ log[i].ok) =>
           \A t \in ValidTagsAtStart :
             SemverCompare(cleanVersion(log[i].tag).body, cleanVersion(t).body) > 0
    /\ \A i \in Calls :
         (log[i].call = "createTag" /\ log[i].tag \in start.tags) =>
           ~log[i].ok /\ pc = "idle" /\ result # "ok"

\* C6: a VersionManager operation never stores a version lower than the one
\* it replaces.
C6_VersionNeverDecreases ==
  [][SemverCompare(currentVersion', currentVersion) >= 0]_vars

\* initRepository runs again with the options of its last successful run, on
\* a repository whose remote exists and whose origin is set
SecondInitRepository ==
  /\ op = "initRepository"
  /\ opCount > 1
  /\ lastInit = [repoName |-> args.repoName, repoType |-> args.repoType]
  /\ args.repoName \in start.platformRepos
  /\ start.isRepo
  /\ start.origin # NoRemote

\* C7: a second initRepository with the same options, on a repository whose
\* remote exists and whose origin is set, issues no create call and leaves
\* origin as it was.
C7_SecondInitReuses ==
  SecondInitRepository =>
    /\ \A i \in Calls : log[i].call \notin {"createUserRepo", "createOrgRepo"}
    /\ origin = start.origin

C7_Witness ==
  /\ SecondInitRepository
  /\ opCount = 2 /\ pc = "idle" /\ result = "ok"
  /\ \E i \in Calls : log[i].call = "getRepo" /\ log[i].ok
  /\ origin = args.repoName

\* publish() runs again with the explicit version whose tag an earlier,
\* failed publish() left behind
RerunOfPartialPublish ==
  /\ op = "publish"
  /\ args.version # NoVersion
  /\ SemverValid(cleanVersion(args.version))
  /\ partialTag = formatVersion(cleanVersion(args.version).body)
  /\ partialTag \in start.tags

\* C8: publish() of the version v, run again after a publish() of v that
\* failed after the merge and the creation of the tag, does not fail on what
\* the first run left behind.
C8_RerunOfPartialPublishSafe ==
  RerunOfPartialPublish =>
    \A i \in Calls : log[i].call \in {"merge --no-ff", "createTag"} => log[i].ok

\* the calls of publish() whose error it is documented to absorb, with the
\* reads (getRemotes, git log) made on behalf of the release creation and of
\* the default-branch update
BestEffortCalls ==
  {"deleteRemoteBranch", "updateDefaultBranch", "getRemotes"}
    \cup (IF SKIP_ON_ERROR THEN {"createRelease", "log"} ELSE {})

\* C9: in publish() a failed call other than the remote deletion of develop,
\* the update of the default branch and the creation of the release is the
\* last call of the operation, which ends with an error.
C9_NoOtherErrorAbsorbed ==
  op = "publish" =>
    \A i \in Calls :
      (~log[i].ok /\ log[i].call \notin BestEffortCalls) =>
        i = Len(log) /\ pc = "idle" /\ result \notin {"ok", "running"}

\* a failed creation of the release or update of the default branch
BestEffortFailure(e) == ~e.ok /\ e.call \in {"createRelease", "updateDefaultBranch"}

\* C10: a publish() whose release creation or default-branch update failed
\* goes on, deletes the develop branch locally and remotely, returns
\* success, and leaves the created tag and the pushed main branch in place.
C10_BestEffortFailureStillPublishes ==
  (op = "publish" /\ \E i \in Calls : BestEffortFailure(log[i])) =>
    /\ result \in {"running", "ok"}
    /\ pc = "idle" =>
         /\ result = "ok"
         /\ \E i \in Calls : log[i].call = "deleteLocalBranch" /\ log[i].branch = developBranch
         /\ \E i \in Calls : log[i].call = "deleteRemoteBranch" /\ log[i].branch = developBranch
    /\ formattedVersion \in tags
    /\ formattedVersion \in remoteTags
    /\ MAIN_BRANCH \in remoteBranches

C10_Witness ==
  /\ op = "publish" /\ pc = "idle" /\ result = "ok"
  /\ \E i \in Calls : log[i].call = "createRelease" /\ ~log[i].ok
  /\ formattedVersion \in tags /\ formattedVersion \notin releases
  /\ developBranch \notin localBranches

\* C11: the merge of main that commit() issues is made while the develop
\* branch is checked out, so that develop is the branch that receives main.
C11_MainMergedIntoDevelop ==
  op = "commit" =>
    \A i \in Calls :
      (log[i].call = "merge --no-ff" /\ log[i].branch = MAIN_BRANCH) =>
        log[i].on = developBranch /\ DevelopRole(log[i].on)

\* the calls of the sync step of commit(): checkout of main, pull of main,
\* merge of main
SyncCall(e) ==
  \/ e.call = "checkout" /\ e.branch = MAIN_BRANCH
  \/ e.call = "pull"
  \/ e.call = "merge --no-ff"

\* C12: a commit() whose checkout, pull or merge of main failed does not
\* abort: it goes on to push the develop branch with upstream tracking, and
\* returns the develop branch when that push succeeds.
C12_SyncFailureNotFatal ==
  (op = "commit" /\ \E i \in Calls : ~log[i].ok /\ SyncCall(log[i])) =>
    /\ developBranch = DEVELOP_BRANCH
    /\ pc \in {"push", "idle"}
    /\ pc = "idle" =>
         /\ log[Len(log)].call = "push --set-upstream"
         /\ log[Len(log)].branch = developBranch
         /\ result = IF log[Len(log)].ok THEN "ok" ELSE "RepositoryError"

C12_Witness ==
  /\ op = "commit" /\ pc = "idle" /\ result = "ok"
  /\ \E i \in Calls : log[i].call = "pull" /\ ~log[i].ok
  /\ developBranch \in remoteBranches

\* C13: a rejected remote deletion, the deletion of the platform's default
\* branch included, is the last call of deleteBranch, which returns
\* normally: the publish() that called it returns success.
C13_RejectedRemoteDeletionReturns ==
  \A i \in Calls :
    (log[i].call = "deleteRemoteBranch" /\ ~log[i].ok) =>
      i = Len(log) /\ pc = "idle" /\ result = "ok"

C13_Witness ==
  /\ op = "publish" /\ pc = "idle" /\ result = "ok"
  /\ \E i \in Calls : /\ log[i].call = "deleteRemoteBranch" /\ ~log[i].ok
                      /\ log[i].branch = defaultBranch
  /\ developBranch \in remoteBranches

\* C14: createDevelopBranch checks out the develop branch when it exists
\* locally or on the remote, and creates it only when it exists in neither
\* place.
C14_ExistingDevelopCheckedOut ==
  op = "commit" =>
    \A i \in Calls :
      /\ log[i].call = "checkoutNewBranch" =>
           DEVELOP_BRANCH \notin start.local \cup start.remote
      /\ (log[i].call = "checkout" /\ log[i].branch = DEVELOP_BRANCH) =>
           DEVELOP_BRANCH \in start.local \cup start.remote

\* C15: once initRemote has returned successfully, origin points at the
\* repository it returned when there was no origin before, and is unchanged
\* when there was one.
C15_InitRemoteWiresOrigin ==
  (op = "initRepository" /\ (pc = "files" \/ (pc = "idle" /\ result = "ok"))) =>
    origin = IF start.origin = NoRemote THEN args.repoName ELSE start.origin

\* the version publish() is to tag when it is given no version: the
\* increment of the latest version among the tags, or of 0.0.0
ExpectedVersion ==
  LET latest == getLatestVersionFromTags(start.tags)
      kind == IF args.versionType = "none" THEN "patch" ELSE args.versionType
  IN  SemverInc(IF latest # Null THEN latest ELSE DEFAULT_VERSION, kind)

\* C16: a publish() without an explicit version tags the increment, of the
\* requested kind (patch by default), of the latest version among the tags
\* of the repository, or of 0.0.0 when there is none, whatever earlier
\* publish() calls did.
C16_TagIsIncrementOfLatestTag ==
  (op = "publish" /\ args.version = NoVersion) =>
    \A i \in Calls :
      log[i].call = "createTag" => log[i].tag = formatVersion(ExpectedVersion)

\* C17: the branch publish() merges into main, and the branch it deletes, is
\* named develop or develop/<suffix>.
C17_PublishedBranchIsDevelop ==
  op = "publish" =>
    \A i \in Calls :
      log[i].call \in {"merge --no-ff", "deleteLocalBranch", "deleteRemoteBranch"} =>
        DevelopRole(log[i].branch)

ValidTagVersions(tagList) ==
  {cleanVersion(t).body : t \in {u \in tagList : SemverValid(cleanVersion(u))}}

\* the greatest version of a set, under semver precedence
GreatestVersion(S) == CHOOSE v \in S : \A w \in S : SemverCompare(v, w) >= 0

\* C19: getLatestVersionFromTags returns the greatest of the valid tag
\* versions, and null exactly when no tag is valid.
C19_LatestIsGreatestValidTag ==
  op = "getLatestVersionFromTags" =>
    returned = IF ValidTagVersions(args.tags) = {} THEN Null
               ELSE GreatestVersion(ValidTagVersions(args.tags))

\* C20: incrementVersion stores, and returns, a version strictly greater
\* than the current version it replaces.
C20_IncrementIsGreater ==
  [][op' = "incrementVersion" =>
       /\ SemverCompare(currentVersion', currentVersion) > 0
       /\ returned' = currentVersion']_vars

C20_Witness ==
  /\ op = "incrementVersion" /\ result = "ok"
  /\ opCount = 2
  /\ returned = currentVersion
  /\ currentVersion = V(1, 0, 0)

\* C29: fullFlow returns successfully only after publish has completed:
\* when it returns, the operation that ran last is a publish that returned.
C29_FullFlowEndsWithPublish ==
  (flow.caller = "fullFlow" /\ flow.at = "returned") =>
    (op = "publish" /\ pc = "idle" /\ result = "ok")

\* the remote had a main or a master branch when the operation was invoked
RemoteMainAtStart == MAIN_BRANCH \in start.remote \/ MASTER_BRANCH \in start.remote

\* fetching, checking out or pulling the remote main branch failed
PullFailed ==
  \E i \in Calls :
    ~log[i].ok /\ log[i].call \in {"fetch", "checkout", "checkoutFromRemote", "pull"}

C27_CommitReachesPushedDevelop ==
  (op = "commit" /\ pc = "idle" /\ result = "ok") =>
    \A i \in Calls :
      (log[i].call = "commit" /\ log[i].ok) =>
        \/ log[i].on = developBranch
        \/ \E j \in Calls : j > i /\ log[j].call = "checkoutNewBranch" /\ log[j].ok

\* C28: once git:init has initialised the repository, the client that
\* git:commit and git:publish build is of the platform kind that git:init
\* persisted in ~/.git_platform.
C28_HandlersUseSavedPlatform ==
  (flow.caller \in {"git:commit", "git:publish"} /\ flow.at = "running"
     /\ lastInit # NoInit /\ savedPlatform # NoPlatform) =>
    platform = savedPlatform

\* the capability set of a platform client
PlatformOperations == Implemented(GITHUB) \cup Implemented(GITEE)

\* C21: a 404 response to repoExists, getRepo, getLatestRelease or
\* releaseExists is returned as false or null, and every other failure
\* status is thrown.
C21_NotFoundIsAbsence ==
  \A i \in 1..Len(http) :
    http[i].operation \in {"repoExists", "getRepo", "getLatestRelease", "releaseExists"} =>
      /\ http[i].status = 404 => http[i].answer \in {"false", "null"}
      /\ http[i].status \notin {200, 404} => http[i].answer = "throw"

\* C22: the two clients are interchangeable: every platform operation that
\* publish() calls is a method of the client it was built with, so that the
\* same operations reach the platform with either client.
C22_PublishCallsImplementedOperations ==
  op = "publish" =>
    \A i \in Calls :
      log[i].call \in PlatformOperations => log[i].call \in Implemented(platform)

\* C23: every request of the Gitee client carries the token as a query
\* parameter.
C23_GiteeTokenInQuery ==
  \A i \in 1..Len(http) : http[i].platform = GITEE => http[i].auth = "query"

\* the sections of the body a release was created with
ReleaseSections ==
  SelectSeq(releaseOptions.body, LAMBDA b : b.heading \notin {"robot mark note", "Full Changelog"})

HeadingRank(heading) ==
  CASE heading = "Breaking Changes" -> 1
    [] heading = "New Features" -> 2
    [] heading = "Bug Fixes" -> 3
    [] heading = "Documentation" -> 4
    [] heading = "Chores & Maintenance" -> 5
    [] heading = "Other Changes" -> 6

\* the commits whose entry stands under a heading
Under(heading) ==
  {n \in 1..Len(commits) :
     \E i \in 1..Len(ReleaseSections) :
       /\ ReleaseSections[i].heading = heading
       /\ \E e \in 1..Len(ReleaseSections[i].entries) : ReleaseSections[i].entries[e].hash = n}

RuleCategory(commit) ==
  IF commit.breaking THEN "Breaking Changes"
  ELSE IF commit.message.shape \in {"colon", "scoped"}
    THEN CASE commit.message.type = "feat" -> "New Features"
           [] commit.message.type = "fix" -> "Bug Fixes"
           [] commit.message.type = "docs" -> "Documentation"
           [] commit.message.type = "chore" -> "Chores & Maintenance"
  ELSE IF smart /\ "breaking" \in commit.keys THEN "Breaking Changes"
  ELSE IF smart /\ "features" \in commit.keys THEN "New Features"
  ELSE IF smart /\ "fixes" \in commit.keys THEN "Bug Fixes"
  ELSE IF smart /\ "docs" \in commit.keys THEN "Documentation"
  ELSE IF smart /\ "chores" \in commit.keys THEN "Chores & Maintenance"
  ELSE "Other Changes"

\* C25: every commit of the range is placed in exactly one category, the one
\* of the first matching rule: BREAKING CHANGE marker, conventional prefix
\* with optional scope, keyword lists when smart categorization is on, other.
C25_FirstMatchingRule ==
  (releaseOptions.called /\ releaseOptions.body # <<>>) =>
    \A n \in 1..Len(commits) :
      \A i \in 1..Len(ReleaseSections) :
        n \in Under(ReleaseSections[i].heading) =>
          ReleaseSections[i].heading = RuleCategory(commits[n])

\* the commits the generator counts as conventional
Recognised ==
  {n \in 1..Len(commits) : commits[n].breaking \/ commits[n].message.shape # "none"}

C26_WitnessBody ==
  /\ releaseOptions.called
  /\ releaseOptions.body # <<>>
  /\ ~releaseOptions.generateReleaseNotes

====
